---- MODULE Spec2Model ----
(***************************************************************************)
(* Verification model of the WebGames repository: the Rubik's cube solver  *)
(* service (CubeState validator, facelet conversion, CubeSolver.Solve) and *)
(* the client's sticker-state tracker.                                     *)
(*                                                                         *)
(* Strings the code inspects character by character (moves, the Kociemba   *)
(* facelet string, the solution string) are sequences of one-character     *)
(* strings; colour tokens are strings, concatenated with \o as             *)
(* string.Concat does.  Array index i of the code is index i+1 here.       *)
(***************************************************************************)
EXTENDS Integers, Sequences, FiniteSets, TLC

VARIABLES
    layout,      \* the CubeState under construction (request body / tracked state)
    turns,       \* number of face turns applied to layout
    edits,       \* number of raw edits applied to layout
    vres,        \* outcome of the last ValidateState call on layout
    req,         \* per Solve call: its local data and program counter
    tablesInitialized,  \* the build-once flag of the table cache
    initLock,    \* holder of the one-time-initialization lock (0 = free)
    tables,      \* the table cache: "none", "partial" or "built"
    buildCount,  \* how many times table construction was started
    tool,        \* the last call of Kociemba.Tools: its input, steps and result
    app,         \* the cube page: App's fields, its buttons and what it awaits
    game         \* the 2048 page: GameManager's fields, its grid and stored state

vars == <<layout, turns, edits, vres, req, tablesInitialized, initLock, tables, buildCount,
          tool, app, game>>

----------------------------------------------------------------------------
(* Bounds of the model *)

MaxTurns == 2        \* face turns applied to a layout before it is submitted
MaxTimedTurns == 1   \* the same, for the calls whose termination is checked
MaxEdits == 2        \* raw sticker edits applied to a layout (validator inputs)
MaxSolveEdits == 1   \* raw edits applied to a layout submitted to Solve
MaxDepthModel == 2   \* search depth explored by the modelled engine
NumRequests == 2     \* concurrent Solve calls
TickMs == 5000       \* wall-clock time one search step may take
MaxVerifyTurns == 1   \* face turns behind a string that is edited before Tools.verify
MaxDraws == 3        \* passes of randomCube's loop that are counted (the loop itself is not cut)

----------------------------------------------------------------------------
(* Faces, colours, layouts *)

Faces == {"U", "D", "F", "B", "R", "L"}

\* type StickerColor
StickerColor == {"W", "Y", "G", "B", "R", "O"}

\* Tokens a request body can hold at a sticker: the six colours, an unknown
\* one-character token, the empty string and a two-character string.
Tokens == StickerColor \cup {"X", "", "GW"}

Nine(c) == <<c, c, c, c, c, c, c, c, c>>

\* RubiksCube.createInitialState / CubeState.Reset
createInitialState ==
    [U |-> Nine("W"), D |-> Nine("Y"), F |-> Nine("G"),
     B |-> Nine("B"), R |-> Nine("R"), L |-> Nine("O")]

\* state[face][i] with the code's 0-based index
At(s, face, i) == s[face][i + 1]

\* Body applied to a value that is computed once (a local variable of the code)
With(value, Body(_)) == CHOOSE out \in {Body(v) : v \in {value}} : TRUE

\* A function written out as a table of its values
Table(f) == f @@ <<>>

----------------------------------------------------------------------------
(* The client's sticker-state tracker: RubiksCube.rotateFace / updateState *)

\* A strip of three stickers of one face
Strip(face, a, b, c) == <<<<face, a>>, <<face, b>>, <<face, c>>>>

\* The four strips of rotateFace's switch, in the order the code assigns them:
\* strip 1 <- strip 2, strip 2 <- strip 3, strip 3 <- strip 4, strip 4 <- temp
\* (temp holding the old strip 1).
AdjacentCycle(face, counterClockwise) ==
    CASE face = "U" ->
           IF counterClockwise
           THEN <<Strip("F",0,1,2), Strip("L",0,1,2), Strip("B",0,1,2), Strip("R",0,1,2)>>
           ELSE <<Strip("F",0,1,2), Strip("R",0,1,2), Strip("B",0,1,2), Strip("L",0,1,2)>>
      [] face = "D" ->
           IF counterClockwise
           THEN <<Strip("F",6,7,8), Strip("R",6,7,8), Strip("B",6,7,8), Strip("L",6,7,8)>>
           ELSE <<Strip("F",6,7,8), Strip("L",6,7,8), Strip("B",6,7,8), Strip("R",6,7,8)>>
      [] face = "F" ->
           IF counterClockwise
           THEN <<Strip("U",6,7,8), Strip("R",0,3,6), Strip("D",2,1,0), Strip("L",8,5,2)>>
           ELSE <<Strip("U",6,7,8), Strip("L",8,5,2), Strip("D",2,1,0), Strip("R",0,3,6)>>
      [] face = "B" ->
           IF counterClockwise
           THEN <<Strip("U",2,1,0), Strip("L",0,3,6), Strip("D",6,7,8), Strip("R",8,5,2)>>
           ELSE <<Strip("U",2,1,0), Strip("R",8,5,2), Strip("D",6,7,8), Strip("L",0,3,6)>>
      [] face = "R" ->
           IF counterClockwise
           THEN <<Strip("U",2,5,8), Strip("B",6,3,0), Strip("D",2,5,8), Strip("F",2,5,8)>>
           ELSE <<Strip("U",2,5,8), Strip("F",2,5,8), Strip("D",2,5,8), Strip("B",6,3,0)>>
      [] face = "L" ->
           IF counterClockwise
           THEN <<Strip("U",0,3,6), Strip("F",0,3,6), Strip("D",0,3,6), Strip("B",8,5,2)>>
           ELSE <<Strip("U",0,3,6), Strip("B",8,5,2), Strip("D",0,3,6), Strip("F",0,3,6)>>

\* The turned face's own stickers rotated against the direction of the turn
FaceRotationReversed(f, counterClockwise) ==
    IF counterClockwise
    THEN <<f[7], f[4], f[1], f[8], f[5], f[2], f[9], f[6], f[3]>>
    ELSE <<f[3], f[6], f[9], f[2], f[5], f[8], f[1], f[4], f[7]>>

\* The rotation of the turned face's own nine stickers
FaceRotation(f, counterClockwise) ==
    IF counterClockwise
    THEN <<f[3], f[6], f[9], f[2], f[5], f[8], f[1], f[4], f[7]>>
    ELSE <<f[7], f[4], f[1], f[8], f[5], f[2], f[9], f[6], f[3]>>

\* The cycle without its temp: the last strip is read after the first was written
AdjacentSourceNoTemp(cyc, g, i) ==
    IF \E k \in 1..4, j \in 1..3 : cyc[k][j] = <<g, i>>
    THEN LET k == CHOOSE k \in 1..4 : \E j \in 1..3 : cyc[k][j] = <<g, i>>
             j == CHOOSE j \in 1..3 : cyc[k][j] = <<g, i>>
         IN  IF k = 4 THEN cyc[2][j] ELSE cyc[k + 1][j]
    ELSE <<g, i>>

\* Where sticker <<g, i>> takes its new value from, for the adjacent strips
AdjacentSource(cyc, g, i) ==
    IF \E k \in 1..4, j \in 1..3 : cyc[k][j] = <<g, i>>
    THEN LET k == CHOOSE k \in 1..4 : \E j \in 1..3 : cyc[k][j] = <<g, i>>
             j == CHOOSE j \in 1..3 : cyc[k][j] = <<g, i>>
         IN  cyc[(k % 4) + 1][j]
    ELSE <<g, i>>

\* The sources of all adjacent stickers, for each face and direction
RotationSource ==
    Table([fc \in Faces \X BOOLEAN |->
             Table([gi \in Faces \X (0..8) |->
                      AdjacentSource(AdjacentCycle(fc[1], fc[2]), gi[1], gi[2])])])

\* RubiksCube.rotateFace
rotateFace(state, face, counterClockwise) ==
    With(<<state, RotationSource[<<face, counterClockwise>>]>>,
         LAMBDA bound :
            LET old == bound[1]
                from == bound[2]
                v(g, i) == LET src == from[<<g, i>>] IN At(old, src[1], src[2])
                row(g) == IF g = face
                          THEN FaceRotation(old[face], counterClockwise)
                          ELSE <<v(g, 0), v(g, 1), v(g, 2), v(g, 3), v(g, 4),
                                 v(g, 5), v(g, 6), v(g, 7), v(g, 8)>>
            IN  [U |-> row("U"), D |-> row("D"), F |-> row("F"),
                 B |-> row("B"), R |-> row("R"), L |-> row("L")])

\* The 18 moves, as the strings the client and the engine exchange
Move(face, modifier) == IF modifier = "" THEN <<face>> ELSE <<face, modifier>>
Moves == {Move(f, m) : f \in Faces, m \in {"", "'", "2"}}

\* String.prototype.includes for a one-character needle
includes(str, ch) == \E i \in 1..Len(str) : str[i] = ch

\* move.replace("'", "").replace("2", ""): each drops the first occurrence
replaceFirst(str, ch) ==
    IF includes(str, ch)
    THEN LET i == CHOOSE i \in 1..Len(str) :
                     str[i] = ch /\ \A j \in 1..(i - 1) : str[j] # ch
         IN  SubSeq(str, 1, i - 1) \o SubSeq(str, i + 1, Len(str))
    ELSE str

\* The face letter updateState derives from a move
MoveFace(move) == replaceFirst(replaceFirst(move, "'"), "2")[1]

\* updateState with the "2" of a double move ignored
updateStateOnce(state, move) ==
    rotateFace(state, MoveFace(move), includes(move, "'"))

\* RubiksCube.updateState
updateState(state, move) ==
    LET face == MoveFace(move)
        counterClockwise == includes(move, "'")
        double == includes(move, "2")
        once == rotateFace(state, face, counterClockwise)
    IN  IF double THEN rotateFace(once, face, counterClockwise) ELSE once

\* const inverseMoves: X <-> X', X2 -> X2, for the six faces
inverseMoves ==
    [m \in Moves |->
        IF Len(m) = 1 THEN Move(m[1], "'")
        ELSE IF m[2] = "'" THEN Move(m[1], "")
        ELSE m]

\* An inverse that is the move itself
getInverseMoveSame(move) == move

\* App.getInverseMove: inverseMoves[move] || move
getInverseMove(move) == IF move \in DOMAIN inverseMoves THEN inverseMoves[move] ELSE move

\* The tracked state after replaying a list of moves (App.stepNext per move)
RECURSIVE replay(_, _)
replay(state, moves) ==
    IF moves = <<>> THEN state
    ELSE With(updateState(state, Head(moves)), LAMBDA next : replay(next, Tail(moves)))

----------------------------------------------------------------------------
(* The engine's facelet string and its face turns, modelled by their       *)
(* contract: a move is the physical quarter turn of a face (bare letter    *)
(* clockwise seen from outside), acting on the facelet layout in face      *)
(* order U,R,F,D,L,B.                                                      *)

\* Face order of the facelet string (ToKociembaString, "Order: U, R, F, D, L, B")
KFaces == <<"U", "R", "F", "D", "L", "B">>

KOffset(face) == 9 * ((CHOOSE k \in 1..6 : KFaces[k] = face) - 1)

\* Position in the facelet string of sticker i (0-based) of a face
KIndex(face, i) == KOffset(face) + i + 1

\* Cubie coordinates of a facelet: x to the right (R), y up (U), z to the front (F);
\* stickers are numbered row by row, top-left to bottom-right when looking at the face.
Coord(face, i) ==
    LET r == i \div 3
        c == i % 3
    IN  CASE face = "U" -> <<c - 1, 1, r - 1>>
          [] face = "D" -> <<c - 1, -1, 1 - r>>
          [] face = "F" -> <<c - 1, 1 - r, 1>>
          [] face = "B" -> <<1 - c, 1 - r, -1>>
          [] face = "R" -> <<1, 1 - r, 1 - c>>
          [] face = "L" -> <<-1, 1 - r, c - 1>>

\* Outward normal of a face
Normal(face) ==
    CASE face = "U" -> <<0, 1, 0>>
      [] face = "D" -> <<0, -1, 0>>
      [] face = "F" -> <<0, 0, 1>>
      [] face = "B" -> <<0, 0, -1>>
      [] face = "R" -> <<1, 0, 0>>
      [] face = "L" -> <<-1, 0, 0>>

Dot(v, w) == v[1] * w[1] + v[2] * w[2] + v[3] * w[3]

\* Clockwise quarter turn (seen from outside the face) of a vector
QuarterTurn(face, v) ==
    CASE face = "U" -> <<-v[3], v[2], v[1]>>
      [] face = "D" -> <<v[3], v[2], -v[1]>>
      [] face = "R" -> <<v[1], v[3], -v[2]>>
      [] face = "L" -> <<v[1], -v[3], v[2]>>
      [] face = "F" -> <<v[2], -v[1], v[3]>>
      [] face = "B" -> <<-v[2], v[1], v[3]>>

\* The facelet a clockwise quarter turn of `face` carries facelet <<g, i>> to
QuarterTurnImage(face, g, i) ==
    IF Dot(Coord(g, i), Normal(face)) = 1
    THEN LET p == QuarterTurn(face, Coord(g, i))
             n == QuarterTurn(face, Normal(g))
             h == CHOOSE h \in Faces : Normal(h) = n
             j == CHOOSE j \in 0..8 : Coord(h, j) = p
         IN  <<h, j>>
    ELSE <<g, i>>

\* The facelet at position d of the facelet string
KFacelet(d) == <<KFaces[((d - 1) \div 9) + 1], (d - 1) % 9>>

\* For each face, the position every position is carried to by a clockwise quarter turn
QuarterImage ==
    Table([face \in Faces |->
        Table([s \in 1..54 |->
            LET to == QuarterTurnImage(face, KFacelet(s)[1], KFacelet(s)[2])
            IN  KIndex(to[1], to[2])])])

\* For each face, the source position of every position after a clockwise quarter turn
QuarterPerm ==
    Table([face \in Faces |->
        Table([d \in 1..54 |-> CHOOSE s \in 1..54 : QuarterImage[face][s] = d])])

IdPerm == [d \in 1..54 |-> d]

\* Apply p, then q (source maps compose the other way round)
ComposePerm(p, q) == Table([d \in 1..54 |-> p[q[d]]])

\* Source positions for one of the 18 moves: X, X2, X'
MovePerm ==
    Table([m \in Moves |->
        LET q == QuarterPerm[m[1]]
            q2 == ComposePerm(q, q)
        IN  IF Len(m) = 1 THEN q
            ELSE IF m[2] = "2" THEN q2
            ELSE ComposePerm(q2, q)])

\* Compose(state, move) for a whole move sequence
RECURSIVE SeqPerm(_)
SeqPerm(ms) ==
    IF ms = <<>> THEN IdPerm
    ELSE ComposePerm(MovePerm[ms[1]], SeqPerm(Tail(ms)))

\* The facelet string after a move sequence
ApplyMoves(kstr, ms) == LET p == SeqPerm(ms) IN [d \in 1..54 |-> kstr[p[d]]]

----------------------------------------------------------------------------
(* CubeState.ValidateState *)

\* The default string order on the tokens of the model (OrderBy(c => c))
TokenOrder == <<"", "B", "G", "GW", "O", "R", "W", "X", "Y">>

Rank(t) == CHOOSE k \in 1..Len(TokenOrder) : TokenOrder[k] = t

\* Insert x after every element that is not greater (a stable sort keeps ties in order)
RECURSIVE InsertSorted(_, _)
InsertSorted(sorted, x) ==
    IF sorted = <<>> THEN <<x>>
    ELSE IF Rank(x) < Rank(Head(sorted)) THEN <<x>> \o sorted
    ELSE <<Head(sorted)>> \o InsertSorted(Tail(sorted), x)

\* Enumerable.OrderBy(c => c)
RECURSIVE OrderBy(_)
OrderBy(cs) ==
    IF cs = <<>> THEN <<>>
    ELSE InsertSorted(OrderBy(SubSeq(cs, 1, Len(cs) - 1)), cs[Len(cs)])

\* string.Concat
RECURSIVE Concat(_)
Concat(parts) == IF parts = <<>> THEN "" ELSE Head(parts) \o Concat(Tail(parts))

\* The fragments of string.Join(sep, items)
RECURSIVE JoinParts(_, _)
JoinParts(sep, items) ==
    IF items = <<>> THEN <<>>
    ELSE IF Len(items) = 1 THEN <<items[1]>>
    ELSE <<items[1], sep>> \o JoinParts(sep, Tail(items))

Join(sep, items) ==
    With(items, LAMBDA list : With(JoinParts(sep, list), LAMBDA parts : Concat(parts)))

\* f applied to every element of a sequence
MapSeq(seq, f(_)) == With(seq, LAMBDA items : Table([k \in 1..Len(items) |-> f(items[k])]))

validEdges ==
    << <<"G","W">>, <<"R","W">>, <<"B","W">>, <<"O","W">>,
       <<"G","Y">>, <<"R","Y">>, <<"B","Y">>, <<"O","Y">>,
       <<"G","R">>, <<"G","O">>, <<"B","R">>, <<"B","O">> >>

validCorners ==
    << <<"G","R","W">>, <<"G","O","W">>, <<"B","R","W">>, <<"B","O","W">>,
       <<"G","R","Y">>, <<"G","O","Y">>, <<"B","R","Y">>, <<"B","O","Y">> >>

edgePositions ==
    << <<"U",7,"F",1,"UF">>, <<"U",5,"R",1,"UR">>, <<"U",1,"B",1,"UB">>, <<"U",3,"L",1,"UL">>,
       <<"D",1,"F",7,"DF">>, <<"D",5,"R",7,"DR">>, <<"D",7,"B",7,"DB">>, <<"D",3,"L",7,"DL">>,
       <<"F",5,"R",3,"FR">>, <<"F",3,"L",5,"FL">>, <<"B",3,"R",5,"BR">>, <<"B",5,"L",3,"BL">> >>

cornerPositions ==
    << <<"U",8,"F",2,"R",0,"UFR">>, <<"U",6,"F",0,"L",2,"UFL">>,
       <<"U",2,"B",0,"R",2,"UBR">>, <<"U",0,"B",2,"L",0,"UBL">>,
       <<"D",2,"F",8,"R",6,"DFR">>, <<"D",0,"F",6,"L",8,"DFL">>,
       <<"D",8,"B",6,"R",8,"DBR">>, <<"D",6,"B",8,"L",6,"DBL">> >>

\* HashSet.Contains on the valid combinations
IsValidKey(valid, key) == \E k \in 1..Len(valid) : Concat(valid[k]) = key

\* The stickers ValidateState reads: GetFace(face)[idx] for every table entry
EdgeColors(s, p) == <<At(s, p[1], p[2]), At(s, p[3], p[4])>>
CornerColors(s, p) == <<At(s, p[1], p[2]), At(s, p[3], p[4]), At(s, p[5], p[6])>>

\* The key of an edge without OrderBy
EdgeKeyUnsorted(s, p) == Concat(EdgeColors(s, p))

\* var sorted = string.Concat(new[] { c1, c2 }.OrderBy(c => c))
EdgeKey(s, p) == Concat(OrderBy(EdgeColors(s, p)))
CornerKey(s, p) == Concat(OrderBy(CornerColors(s, p)))

\* edgeCounts[key] / cornerCounts[key]: the position names holding that key, in table order
EdgePositionsOf(s, key) ==
    MapSeq(SelectSeq(edgePositions, LAMBDA p : EdgeKey(s, p) = key), LAMBDA p : p[5])
CornerPositionsOf(s, key) ==
    MapSeq(SelectSeq(cornerPositions, LAMBDA p : CornerKey(s, p) = key), LAMBDA p : p[7])

\* InvalidEdges that looks up the colours as read, without OrderBy
InvalidEdgesAsRead(s) ==
    MapSeq(SelectSeq(edgePositions, LAMBDA p : ~IsValidKey(validEdges, EdgeKeyUnsorted(s, p))),
           LAMBDA p : <<At(s, p[1], p[2]), "-", At(s, p[3], p[4]), " at ", p[5]>>)

\* The six lists of ValidationResult; an entry is the list of fragments of its text
InvalidEdges(s) ==
    MapSeq(SelectSeq(edgePositions, LAMBDA p : ~IsValidKey(validEdges, EdgeKey(s, p))),
           LAMBDA p : <<At(s, p[1], p[2]), "-", At(s, p[3], p[4]), " at ", p[5]>>)

MissingEdges(s) ==
    MapSeq(SelectSeq(validEdges, LAMBDA v : Len(EdgePositionsOf(s, Concat(v))) = 0),
           LAMBDA v : <<v[1], "-", v[2]>>)

DuplicateEdges(s) ==
    MapSeq(SelectSeq(validEdges, LAMBDA v : Len(EdgePositionsOf(s, Concat(v))) > 1),
           LAMBDA v : <<v[1], "-", v[2], " at ">>
                        \o JoinParts(", ", EdgePositionsOf(s, Concat(v))))

InvalidCorners(s) ==
    MapSeq(SelectSeq(cornerPositions, LAMBDA p : ~IsValidKey(validCorners, CornerKey(s, p))),
           LAMBDA p : <<At(s, p[1], p[2]), "-", At(s, p[3], p[4]), "-", At(s, p[5], p[6]),
                        " at ", p[7]>>)

MissingCorners(s) ==
    MapSeq(SelectSeq(validCorners, LAMBDA v : Len(CornerPositionsOf(s, Concat(v))) = 0),
           LAMBDA v : <<v[1], "-", v[2], "-", v[3]>>)

DuplicateCorners(s) ==
    MapSeq(SelectSeq(validCorners, LAMBDA v : Len(CornerPositionsOf(s, Concat(v))) > 1),
           LAMBDA v : <<v[1], "-", v[2], "-", v[3], " at ">>
                        \o JoinParts(", ", CornerPositionsOf(s, Concat(v))))

\* new ValidationResult() filled by ValidateState
Report(s) ==
    [MissingEdges |-> MissingEdges(s), DuplicateEdges |-> DuplicateEdges(s),
     InvalidEdges |-> InvalidEdges(s), MissingCorners |-> MissingCorners(s),
     DuplicateCorners |-> DuplicateCorners(s), InvalidCorners |-> InvalidCorners(s)]

\* ValidationResult.HasIssues
HasIssues(r) ==
    \/ Len(r.MissingEdges) > 0 \/ Len(r.DuplicateEdges) > 0
    \/ Len(r.InvalidEdges) > 0 \/ Len(r.MissingCorners) > 0
    \/ Len(r.DuplicateCorners) > 0 \/ Len(r.InvalidCorners) > 0

\* An array read of ValidateState that lies outside the array it indexes
ReadsOutOfRange(s) ==
    \/ \E k \in 1..Len(edgePositions) :
          LET p == edgePositions[k]
          IN  p[2] >= Len(s[p[1]]) \/ p[4] >= Len(s[p[3]])
    \/ \E k \in 1..Len(cornerPositions) :
          LET p == cornerPositions[k]
          IN  p[2] >= Len(s[p[1]]) \/ p[4] >= Len(s[p[3]]) \/ p[6] >= Len(s[p[5]])

IndexOutOfRangeMessage == "Index was outside the bounds of the array."

\* CubeState.ValidateState: null, a ValidationResult, or an exception leaving the method
ValidateState(s) ==
    IF ReadsOutOfRange(s)
    THEN [kind |-> "throw", message |-> IndexOutOfRangeMessage]
    ELSE With(Report(s), LAMBDA result :
                 IF HasIssues(result) THEN [kind |-> "result", result |-> result]
                 ELSE [kind |-> "null"])

\* ValidationResult.GetDetailedMessage
GetDetailedMessage(r) ==
    LET texts(list) == MapSeq(list, LAMBDA e : Concat(e))
        part(label, sep, list) ==
            IF Len(list) > 0 THEN <<label \o Join(sep, texts(list))>> ELSE <<>>
    IN  Join(". ",
             part("Invalid edges: ", "; ", r.InvalidEdges)
             \o part("Missing edges: ", ", ", r.MissingEdges)
             \o part("Duplicate edges: ", "; ", r.DuplicateEdges)
             \o part("Invalid corners: ", "; ", r.InvalidCorners)
             \o part("Missing corners: ", ", ", r.MissingCorners)
             \o part("Duplicate corners: ", "; ", r.DuplicateCorners))

----------------------------------------------------------------------------
(* CubeState.ToKociembaString *)

\* colorToFace
colorToFace ==
    [c \in StickerColor |-> CASE c = "W" -> "U" [] c = "R" -> "R" [] c = "G" -> "F"
                              [] c = "Y" -> "D" [] c = "O" -> "L" [] c = "B" -> "B"]

\* The stickers in the order CubeState declares its faces: U, D, F, B, R, L
StickersInDeclaredOrder(s) == s["U"] \o s["D"] \o s["F"] \o s["B"] \o s["R"] \o s["L"]

\* All stickers in the order the six foreach loops append them: U, R, F, D, L, B
StickersInOrder(s) == s["U"] \o s["R"] \o s["F"] \o s["D"] \o s["L"] \o s["B"]

KeyNotFoundMessage(key) == "The given key '" \o key \o "' was not present in the dictionary."

\* CubeState.ToKociembaString: the facelet string, or the KeyNotFoundException of
\* the first token colorToFace does not hold
ToKociembaString(s) ==
    LET all == StickersInOrder(s)
        unknown == {k \in 1..Len(all) : all[k] \notin StickerColor}
    IN  IF unknown # {}
        THEN LET k == CHOOSE k \in unknown : \A j \in unknown : k <= j
             IN  [kind |-> "throw", message |-> KeyNotFoundMessage(all[k])]
        ELSE [kind |-> "ok", value |-> [k \in 1..Len(all) |-> colorToFace[all[k]]]]

\* "UUUUUUUUURRRRRRRRRFFFFFFFFFDDDDDDDDDLLLLLLLLLBBBBBBBBB"
SolvedString == Nine("U") \o Nine("R") \o Nine("F") \o Nine("D") \o Nine("L") \o Nine("B")

\* CubeState.IsSolved
IsSolved(s) ==
    /\ \A k \in 1..Len(s["U"]) : s["U"][k] = "W"
    /\ \A k \in 1..Len(s["D"]) : s["D"][k] = "Y"
    /\ \A k \in 1..Len(s["F"]) : s["F"][k] = "G"
    /\ \A k \in 1..Len(s["B"]) : s["B"][k] = "B"
    /\ \A k \in 1..Len(s["R"]) : s["R"][k] = "R"
    /\ \A k \in 1..Len(s["L"]) : s["L"][k] = "O"

----------------------------------------------------------------------------
(* Kociemba.Tools.verify and the cubie-level checks behind it *)

\* enum CubeColor: the names of its values 0..5 (KFaces lists them in order)
CubeColor == {"U", "R", "F", "D", "L", "B"}

EnumDigits == <<"0", "1", "2", "3", "4", "5", "6", "7", "8", "9">>

\* (int)(CubeColor)Enum.Parse(typeof(CubeColor), ch): Enum.Parse takes the name
\* of a value (case-sensitive) or a number, which it converts without a range
\* check; -1 stands for the ArgumentException on any other text
EnumParse(ch) ==
    CASE ch = "U" -> 0 [] ch = "R" -> 1 [] ch = "F" -> 2
      [] ch = "D" -> 3 [] ch = "L" -> 4 [] ch = "B" -> 5
      [] \E k \in 1..10 : EnumDigits[k] = ch -> (CHOOSE k \in 1..10 : EnumDigits[k] = ch) - 1
      [] OTHER -> -1

\* The first part of Tools.verify: s[i] and Enum.Parse succeed for i < 54, every
\* parsed value indexes count[6], and every count is 9
ColorCountsOk(str) ==
    /\ Len(str) >= 54
    /\ With(Table([i \in 1..54 |-> EnumParse(str[i])]),
            LAMBDA parsed :
               /\ \A i \in 1..54 : parsed[i] \in 0..5
               /\ \A v \in 0..5 : Cardinality({i \in 1..54 : parsed[i] = v}) = 9)

\* new FaceCube(s): the facelet colours, each character parsed as verify parses it
FaceCube(str) == Table([i \in 1..Len(str) |-> KFaces[EnumParse(str[i]) + 1]])

\* The facelets of the 8 corner slots, in rotational order from the U/D facelet
\* (URF, UFL, ULB, UBR, DFR, DLF, DBL, DRB)
cornerFacelet ==
    << <<<<"U",8>>, <<"R",0>>, <<"F",2>>>>, <<<<"U",6>>, <<"F",0>>, <<"L",2>>>>,
       <<<<"U",0>>, <<"L",0>>, <<"B",2>>>>, <<<<"U",2>>, <<"B",0>>, <<"R",2>>>>,
       <<<<"D",2>>, <<"F",8>>, <<"R",6>>>>, <<<<"D",0>>, <<"L",8>>, <<"F",6>>>>,
       <<<<"D",6>>, <<"B",8>>, <<"L",6>>>>, <<<<"D",8>>, <<"R",8>>, <<"B",6>>>> >>

\* The facelets of the 12 edge slots (UR, UF, UL, UB, DR, DF, DL, DB, FR, FL, BL, BR)
edgeFacelet ==
    << <<<<"U",5>>, <<"R",1>>>>, <<<<"U",7>>, <<"F",1>>>>, <<<<"U",3>>, <<"L",1>>>>,
       <<<<"U",1>>, <<"B",1>>>>, <<<<"D",5>>, <<"R",7>>>>, <<<<"D",1>>, <<"F",7>>>>,
       <<<<"D",3>>, <<"L",7>>>>, <<<<"D",7>>, <<"B",7>>>>, <<<<"F",5>>, <<"R",3>>>>,
       <<<<"F",3>>, <<"L",5>>>>, <<<<"B",5>>, <<"L",3>>>>, <<<<"B",3>>, <<"R",5>>>> >>

KAt(str, fl) == str[KIndex(fl[1], fl[2])]

\* The piece and orientation found in corner slot i: <<piece, twist>>, <<0, 0>> if none
CornerIn(str, i) ==
    LET f == cornerFacelet[i]
        col(o) == KAt(str, f[(o % 3) + 1])
        fits(j, o) == /\ col(o) \in {"U", "D"}
                      /\ col(o) = cornerFacelet[j][1][1]
                      /\ col(o + 1) = cornerFacelet[j][2][1]
                      /\ col(o + 2) = cornerFacelet[j][3][1]
        found == {jo \in (1..8) \X (0..2) : fits(jo[1], jo[2])}
    IN  IF found = {} THEN <<0, 0>> ELSE CHOOSE jo \in found : TRUE

\* The piece and flip found in edge slot i: <<piece, flip>>, <<0, 0>> if none
EdgeIn(str, i) ==
    LET f == edgeFacelet[i]
        a == KAt(str, f[1])
        b == KAt(str, f[2])
        fits(j, o) == IF o = 0
                      THEN a = edgeFacelet[j][1][1] /\ b = edgeFacelet[j][2][1]
                      ELSE b = edgeFacelet[j][1][1] /\ a = edgeFacelet[j][2][1]
        found == {jo \in (1..12) \X (0..1) : fits(jo[1], jo[2])}
    IN  IF found = {} THEN <<0, 0>> ELSE CHOOSE jo \in found : TRUE

RECURSIVE SumSeq(_)
SumSeq(xs) == IF xs = <<>> THEN 0 ELSE Head(xs) + SumSeq(Tail(xs))

\* Parity of a permutation given as a sequence: the number of inversions mod 2
Parity(perm) ==
    Cardinality({ij \in (1..Len(perm)) \X (1..Len(perm)) :
                    ij[1] < ij[2] /\ perm[ij[1]] > perm[ij[2]]}) % 2

\* FaceCube.toCubieCube: the corner and edge permutations and orientations
toCubieCube(str) ==
    [cp |-> Table([i \in 1..8 |-> CornerIn(str, i)[1]]),
     co |-> Table([i \in 1..8 |-> CornerIn(str, i)[2]]),
     ep |-> Table([i \in 1..12 |-> EdgeIn(str, i)[1]]),
     eo |-> Table([i \in 1..12 |-> EdgeIn(str, i)[2]])]

\* CubieCube.verify
CubieVerify(cc) ==
    IF \E j \in 1..12 : Cardinality({i \in 1..12 : cc.ep[i] = j}) # 1 THEN -2
    ELSE IF SumSeq(cc.eo) % 2 # 0 THEN -3
    ELSE IF \E j \in 1..8 : Cardinality({i \in 1..8 : cc.cp[i] = j}) # 1 THEN -4
    ELSE IF SumSeq(cc.co) % 3 # 0 THEN -5
    ELSE IF Parity(cc.ep) # Parity(cc.cp) THEN -6
    ELSE 0

\* Tools.verify, with the calls it makes after the colour counts
VerifyRun(str) ==
    IF ~ColorCountsOk(str) THEN [code |-> -1, calls |-> <<>>]
    ELSE With(FaceCube(str), LAMBDA fc :
         With(toCubieCube(fc), LAMBDA cc :
              [code |-> CubieVerify(cc),
               calls |-> <<"FaceCube", "toCubieCube", "CubieCube.verify">>]))

\* Tools.verify
verify(str) == VerifyRun(str).code

----------------------------------------------------------------------------
(* The search engine behind SearchRunTime.solution: its result is a move   *)
(* list that solves the submitted cube, or one of the coded errors.        *)

\* maxDepth: 22 and timeOut: 10000 of the call in CubeSolver.Solve
maxDepth == 22
timeOut == 10000

\* The depth the modelled engine explores
SearchDepth == IF MaxDepthModel < maxDepth THEN MaxDepthModel ELSE maxDepth

KFaceIndex(face) == CHOOSE k \in 1..6 : KFaces[k] = face

\* Move ordering: never two consecutive moves of one face, and of two consecutive
\* moves of opposite faces only one order is generated
OrderedMoves(ms) ==
    \A k \in 2..Len(ms) :
        /\ ms[k][1] # ms[k - 1][1]
        /\ KFaceIndex(ms[k][1]) - 3 # KFaceIndex(ms[k - 1][1])

\* The move lists the engine can generate within its depth
SearchSpace ==
    {ms \in UNION {[1..n -> Moves] : n \in 0..SearchDepth} : OrderedMoves(ms)}

\* Every move list of the search space with the source positions it leaves
SearchPerms == {<<ms, SeqPerm(ms)>> : ms \in SearchSpace}

\* The move lists of the search space that take the cube to the identity
Solutions(kstr) ==
    {e[1] : e \in {e \in SearchPerms : \A d \in 1..54 : kstr[e[2][d]] = SolvedString[d]}}

\* The solution string: every move followed by a blank
RECURSIVE SolutionToString(_)
SolutionToString(ms) ==
    IF ms = <<>> THEN <<>> ELSE Head(ms) \o <<" ">> \o SolutionToString(Tail(ms))

Digit(n) == <<"0", "1", "2", "3", "4", "5", "6", "7", "8", "9">>[n + 1]

\* "Error n"
ErrorString(n) == <<"E", "r", "r", "o", "r", " ", Digit(n)>>

----------------------------------------------------------------------------
(* CubeSolver *)

\* string.StartsWith("Error")
StartsWithError(str) ==
    Len(str) >= 5 /\ SubSeq(str, 1, 5) = <<"E", "r", "r", "o", "r">>

\* string.Split(' ', StringSplitOptions.RemoveEmptyEntries)
RECURSIVE SplitOnBlank(_, _)
SplitOnBlank(str, current) ==
    IF str = <<>> THEN (IF current = <<>> THEN <<>> ELSE <<current>>)
    ELSE IF Head(str) = " "
         THEN (IF current = <<>> THEN <<>> ELSE <<current>>) \o SplitOnBlank(Tail(str), <<>>)
         ELSE SplitOnBlank(Tail(str), Append(current, Head(str)))

\* string.Trim
RECURSIVE Trim(_)
Trim(str) ==
    IF str = <<>> THEN str
    ELSE IF Head(str) = " " THEN Trim(Tail(str))
    ELSE IF str[Len(str)] = " " THEN Trim(SubSeq(str, 1, Len(str) - 1))
    ELSE str

\* CubeSolver.ParseSolution
ParseSolution(solutionString) ==
    IF \A k \in 1..Len(solutionString) : solutionString[k] = " "
    THEN <<>>
    ELSE SelectSeq(MapSeq(SplitOnBlank(solutionString, <<>>), Trim),
                   LAMBDA m : m # <<>>)

\* GetErrorMessage without the case of "Error 8"
GetErrorMessageNoTimeout(errorCode) ==
    CASE errorCode = "Error 7" -> "No solution found within max depth"
      [] OTHER -> errorCode

\* GetErrorMessage giving "Error 8" the text of "Error 7"
GetErrorMessageSameText(errorCode) ==
    CASE errorCode = "Error 1" -> "Invalid cube: Not exactly one facelet of each color"
      [] errorCode = "Error 2" -> "Invalid cube: Not all 12 edges exist exactly once"
      [] errorCode = "Error 3" -> "Invalid cube: One edge has to be flipped"
      [] errorCode = "Error 4" -> "Invalid cube: Not all 8 corners exist exactly once"
      [] errorCode = "Error 5" -> "Invalid cube: One corner has to be twisted"
      [] errorCode = "Error 6" ->
           "Invalid cube: Two corners or two edges have to be exchanged (parity error)"
      [] errorCode = "Error 7" -> "No solution found within max depth"
      [] errorCode = "Error 8" -> "No solution found within max depth"
      [] OTHER -> errorCode

\* CubeSolver.GetErrorMessage
GetErrorMessage(errorCode) ==
    CASE errorCode = "Error 1" -> "Invalid cube: Not exactly one facelet of each color"
      [] errorCode = "Error 2" -> "Invalid cube: Not all 12 edges exist exactly once"
      [] errorCode = "Error 3" -> "Invalid cube: One edge has to be flipped"
      [] errorCode = "Error 4" -> "Invalid cube: Not all 8 corners exist exactly once"
      [] errorCode = "Error 5" -> "Invalid cube: One corner has to be twisted"
      [] errorCode = "Error 6" ->
           "Invalid cube: Two corners or two edges have to be exchanged (parity error)"
      [] errorCode = "Error 7" -> "No solution found within max depth"
      [] errorCode = "Error 8" -> "Timeout - no solution found within time limit"
      [] OTHER -> errorCode

\* new SolveResponse(); Error is <<>> for null, <<text>> when set
NewResponse == [Solution |-> <<>>, MoveCount |-> 0, SolveTimeMs |-> 0, Error |-> <<>>]

Reqs == 1..NumRequests

\* The local data of one Solve call
Call(pc, state) ==
    [pc |-> pc, state |-> state, calls |-> <<>>, validationResult |-> "none",
     kociembaString |-> <<>>, solutionString |-> <<>>, elapsed |-> 0,
     response |-> NewResponse]

\* private static bool _tablesInitialized = false
TablesInitializedDefault == FALSE

----------------------------------------------------------------------------
(* Layouts: scrambles of the solved cube, or the solved cube with raw edits *)

\* The stickers a raw edit touches: a centre, both stickers of the edge UF and the
\* three stickers of the corner UFR; and the faces whose array may be short
EditStickers == {<<"U", 4>>, <<"U", 7>>, <<"F", 1>>, <<"U", 8>>, <<"F", 2>>, <<"R", 0>>}
EditFaces == {"U", "F", "R"}

\* const scrambleLength = 20
scrambleLength == 20

\* A scramble App.scramble can draw: no face twice in a row, and after two turns of
\* opposite faces not the first of them again
SampleScramble ==
    << <<"R">>, <<"U">>, <<"F","'">>, <<"L","2">>, <<"D">>, <<"B","'">>, <<"R","2">>,
       <<"U","'">>, <<"F">>, <<"L">>, <<"D","2">>, <<"B">>, <<"R","'">>, <<"U","2">>,
       <<"F","2">>, <<"L","'">>, <<"D","'">>, <<"B","2">>, <<"R">>, <<"U">> >>

\* The fields of a new App, the page's buttons as the first handler finds them, and
\* nothing awaited.  With no solution stored stepNext, stepPrev and togglePlay
\* return at once, so the markup's first setting of the playback controls has no
\* effect on what follows.
AppStart ==
    [cube |-> createInitialState, isAnimating |-> FALSE, moveHistory |-> <<>>,
     solution |-> <<>>, solutionIndex |-> -1, isPlaying |-> FALSE,
     disabled |-> FALSE, prevDisabled |-> FALSE, nextDisabled |-> FALSE,
     playDisabled |-> FALSE, shown |-> FALSE,
     awaited |-> {}, timers |-> 0, sent |-> createInitialState,
     manual |-> 0, solves |-> 0, clicks |-> 0]

\* The 2048 page before its GameManager is constructed: an empty localStorage
GameStart ==
    [loaded |-> FALSE, size |-> 0, cells |-> <<>>, score |-> 0, over |-> FALSE,
     won |-> FALSE, keepPlaying |-> FALSE, bestScore |-> 0, gameState |-> <<>>,
     moves |-> 0, last |-> <<>>]

AllIdle == \A r \in Reqs : req[r].pc = "idle"

Building == vres.kind = "none" /\ AllIdle /\ tool.op = "none"

Init ==
    /\ layout = createInitialState
    /\ turns = 0
    /\ edits = 0
    /\ vres = [kind |-> "none"]
    /\ req = [r \in Reqs |-> Call("idle", createInitialState)]
    /\ tablesInitialized = TablesInitializedDefault
    /\ initLock = 0
    /\ tables = "none"
    /\ buildCount = 0
    /\ tool = [op |-> "none"]
    /\ app = AppStart
    /\ game = GameStart

\* A face turn of the client's cube (RubiksCube.rotate -> updateState)
Turn(bound, m) ==
    /\ Building
    /\ edits = 0
    /\ turns < bound
    /\ layout' = updateState(layout, m)
    /\ turns' = turns + 1
    /\ UNCHANGED <<edits, vres, req, tablesInitialized, initLock, tables, buildCount, tool, app, game>>

\* App.scramble: scrambleLength random turns of the client's cube
Scramble(bound) ==
    /\ Building
    /\ edits = 0
    /\ turns = 0
    /\ Len(SampleScramble) = scrambleLength
    /\ layout' = replay(layout, SampleScramble)
    /\ turns' = bound
    /\ UNCHANGED <<edits, vres, req, tablesInitialized, initLock, tables, buildCount, tool, app, game>>

\* A request body that differs from a tracked state in one sticker
SetSticker(bound, fl, t) ==
    /\ Building
    /\ turns = 0
    /\ edits < bound
    /\ fl[2] < Len(layout[fl[1]])
    /\ At(layout, fl[1], fl[2]) # t
    /\ layout' = [layout EXCEPT ![fl[1]][fl[2] + 1] = t]
    /\ edits' = edits + 1
    /\ UNCHANGED <<turns, vres, req, tablesInitialized, initLock, tables, buildCount, tool, app, game>>

\* A request body one of whose face arrays is one element short
Truncate(bound, f) ==
    /\ Building
    /\ turns = 0
    /\ edits < bound
    /\ Len(layout[f]) > 0
    /\ layout' = [layout EXCEPT ![f] = SubSeq(layout[f], 1, Len(layout[f]) - 1)]
    /\ edits' = edits + 1
    /\ UNCHANGED <<turns, vres, req, tablesInitialized, initLock, tables, buildCount, tool, app, game>>

\* state.ValidateState() on the layout built so far
RunValidate ==
    /\ Building
    /\ vres' = ValidateState(layout)
    /\ UNCHANGED <<layout, turns, edits, req, tablesInitialized, initLock, tables, buildCount, tool, app, game>>

----------------------------------------------------------------------------
(* Kociemba.Tools called on its own *)

\* Facelets (U5, U8, U9, R2, F2, F3) and characters used to damage a cube string
EditPositions == {5, 8, 9, 11, 20, 21}
EditChars == {"U", "R", "F", "0", "6", "X", "u"}
ShortLengths == {0, 53}

\* The facelet string of the layout built so far
LayoutString == ToKociembaString(layout).value

\* Tools.verify(s); "of" remembers how s was made
CallVerify(of, s) ==
    /\ Building
    /\ \E run \in {VerifyRun(s)} :
          tool' = [op |-> "verify", of |-> of, s |-> s,
                   code |-> run.code, calls |-> run.calls]
    /\ UNCHANGED <<layout, turns, edits, vres, req, tablesInitialized, initLock, tables,
                   buildCount, app, game>>

\* verify on the string of a turned layout
VerifyLayout == CallVerify("layout", LayoutString)

\* verify on a string with one character replaced
VerifyEdited(p, ch) ==
    /\ turns <= MaxVerifyTurns
    /\ LayoutString[p] # ch
    /\ CallVerify("edited", [LayoutString EXCEPT ![p] = ch])

\* verify on a string with two facelets exchanged
VerifySwapped(p, q) ==
    /\ turns <= MaxVerifyTurns
    /\ p < q
    /\ LayoutString[p] # LayoutString[q]
    /\ CallVerify("swapped", [LayoutString EXCEPT ![p] = LayoutString[q],
                                                  ![q] = LayoutString[p]])

\* verify on a string that is too short
VerifyShort(n) ==
    /\ turns <= MaxVerifyTurns
    /\ CallVerify("short", SubSeq(LayoutString, 1, n))

\* new CubieCube(): the solved cube, by its two orientation coordinates and its
\* two permutations
SolvedCubie ==
    [flip |-> 0, twist |-> 0,
     cp |-> <<1, 2, 3, 4, 5, 6, 7, 8>>,
     ep |-> <<1, 2, 3, 4, 5, 6, 7, 8, 9, 10, 11, 12>>]

\* Values gen.Next(N_FLIP) and gen.Next(N_TWIST) can draw
FlipSamples == {0, 1, 2047}
TwistSamples == {0, 1, 2186}

\* Permutations gen.Next(N_URFtoDLB) and gen.Next(N_URtoBR) can select: the
\* identity, an exchange of two pieces and a cycle of three
CornerPermSamples ==
    { <<1, 2, 3, 4, 5, 6, 7, 8>>, <<2, 1, 3, 4, 5, 6, 7, 8>>, <<2, 3, 1, 4, 5, 6, 7, 8>> }
EdgePermSamples ==
    { <<1, 2, 3, 4, 5, 6, 7, 8, 9, 10, 11, 12>>,
      <<2, 1, 3, 4, 5, 6, 7, 8, 9, 10, 11, 12>>,
      <<2, 3, 1, 4, 5, 6, 7, 8, 9, 10, 11, 12>> }

\* The setters of CubieCube: each writes the one component it is named after
setFlip(cc, flip) == [cc EXCEPT !.flip = flip]
setTwist(cc, twist) == [cc EXCEPT !.twist = twist]
setURFtoDLB(cc, perm) == [cc EXCEPT !.cp = perm]
setURtoBR(cc, perm) == [cc EXCEPT !.ep = perm]

cornerParity(cc) == Parity(cc.cp)
edgeParity(cc) == Parity(cc.ep)

\* A loop that is left after its first pass whatever the parities
ParityAgreesAlways(cc) == TRUE

\* (cc.edgeParity() ^ cc.cornerParity()) == 0: the loop is left
ParityAgrees(cc) == edgeParity(cc) = cornerParity(cc)

\* randomCube up to its loop: flip and twist are drawn and set
RandomCubeStart ==
    /\ Building
    /\ turns = 0
    /\ \E flip \in FlipSamples, twist \in TwistSamples :
          tool' = [op |-> "randomCube", pc |-> "loop",
                   cc |-> setTwist(setFlip(SolvedCubie, flip), twist),
                   sampled |-> [flip |-> flip, twist |-> twist],
                   draws |-> 0]
    /\ UNCHANGED <<layout, turns, edits, vres, req, tablesInitialized, initLock, tables,
                   buildCount, app, game>>

\* A loop that draws the permutations in its first pass only
RandomCubeResampleOnce ==
    /\ tool.op = "randomCube"
    /\ tool.pc = "loop"
    /\ \E cp \in CornerPermSamples, ep \in EdgePermSamples :
          \E cc \in {IF tool.draws = 0 THEN setURtoBR(setURFtoDLB(tool.cc, cp), ep)
                                       ELSE tool.cc} :
             tool' = [tool EXCEPT !.cc = cc,
                                  !.pc = IF ParityAgrees(cc) THEN "exit" ELSE "loop",
                                  !.draws = IF @ < MaxDraws THEN @ + 1 ELSE @]
    /\ UNCHANGED <<layout, turns, edits, vres, req, tablesInitialized, initLock, tables,
                   buildCount, app, game>>

\* One pass of the do-while loop: both permutations are drawn and set, then the
\* parities are compared
RandomCubeResample ==
    /\ tool.op = "randomCube"
    /\ tool.pc = "loop"
    /\ \E cp \in CornerPermSamples, ep \in EdgePermSamples :
          \E cc \in {setURtoBR(setURFtoDLB(tool.cc, cp), ep)} :
             tool' = [tool EXCEPT !.cc = cc,
                                  !.pc = IF ParityAgrees(cc) THEN "exit" ELSE "loop",
                                  !.draws = IF @ < MaxDraws THEN @ + 1 ELSE @]
    /\ UNCHANGED <<layout, turns, edits, vres, req, tablesInitialized, initLock, tables,
                   buildCount, app, game>>

\* return cc.toFaceCube().to_fc_String(): the cube is handed out
RandomCubeReturn ==
    /\ tool.op = "randomCube"
    /\ tool.pc = "exit"
    /\ tool' = [tool EXCEPT !.pc = "returned"]
    /\ UNCHANGED <<layout, turns, edits, vres, req, tablesInitialized, initLock, tables,
                   buildCount, app, game>>

----------------------------------------------------------------------------
(* CubeSolver.Solve, step by step *)

Shared == <<tablesInitialized, initLock, tables, buildCount>>
Inputs == <<layout, turns, edits, vres, tool, app, game>>

\* return response (with response.SolveTimeMs = sw.ElapsedMilliseconds)
Return(c, response) ==
    [c EXCEPT !.pc = "done", !.response = [response EXCEPT !.SolveTimeMs = c.elapsed]]

\* A handler that lets the exception leave Solve
CatchRethrows(c, message) == [c EXCEPT !.pc = "thrown"]

\* catch (Exception ex) { response.Error = ex.Message; ... } return response
Catch(c, message) == Return(c, [c.response EXCEPT !.Error = <<message>>])

\* CubeController.Solve -> _solver.Solve(request.State)
Submit(r, s) ==
    /\ req[r].pc = "idle"
    /\ vres.kind = "none"
    /\ req' = [req EXCEPT ![r] = Call("validate", s)]
    /\ UNCHANGED <<Inputs, Shared>>

\* Solve with the validation result ignored
SolveValidateIgnored(c, v) ==
    LET d == [c EXCEPT !.calls = Append(c.calls, "ValidateState"),
                       !.validationResult = v.kind]
    IN  IF v.kind = "throw" THEN Catch(d, v.message) ELSE [d EXCEPT !.pc = "convert"]

\* if (validationResult != null) { response.Error = ...; return response; }
\* v is the outcome of state.ValidateState()
SolveValidate(c, v) ==
    LET d == [c EXCEPT !.calls = Append(c.calls, "ValidateState"),
                       !.validationResult = v.kind]
    IN  IF v.kind = "throw" THEN Catch(d, v.message)
        ELSE IF v.kind = "result"
        THEN Return(d, [d.response EXCEPT
                          !.Error = <<"Invalid cube: " \o GetDetailedMessage(v.result)>>])
        ELSE [d EXCEPT !.pc = "convert"]

\* var validationResult = state.ValidateState(); ...
Validate(r) ==
    /\ req[r].pc = "validate"
    /\ \E v \in {ValidateState(req[r].state)} :
          req' = [req EXCEPT ![r] = SolveValidate(req[r], v)]
    /\ UNCHANGED <<Inputs, Shared>>

\* Solve converting in place: every sticker is overwritten by its face letter
SolveConvertInPlace(c) ==
    LET k == ToKociembaString(c.state)
        d == [c EXCEPT !.calls = Append(c.calls, "ToKociembaString")]
    IN  IF k.kind = "throw" THEN Catch(d, k.message)
        ELSE LET e == [d EXCEPT !.state =
                          [f \in Faces |-> [i \in 1..Len(c.state[f]) |->
                                               colorToFace[c.state[f][i]]]]]
             IN  IF k.value = SolvedString
                 THEN Return(e, [e.response EXCEPT !.Solution = <<>>, !.MoveCount = 0])
                 ELSE [e EXCEPT !.pc = "call", !.kociembaString = k.value]

\* Solve without the shortcut for the solved cube
SolveConvertNoShortcut(c) ==
    LET k == ToKociembaString(c.state)
        d == [c EXCEPT !.calls = Append(c.calls, "ToKociembaString")]
    IN  IF k.kind = "throw" THEN Catch(d, k.message)
        ELSE [d EXCEPT !.pc = "call", !.kociembaString = k.value]

\* var kociembaString = state.ToKociembaString(); if (kociembaString == "UUU...") ...
SolveConvert(c) ==
    LET k == ToKociembaString(c.state)
        d == [c EXCEPT !.calls = Append(c.calls, "ToKociembaString")]
    IN  IF k.kind = "throw" THEN Catch(d, k.message)
        ELSE IF k.value = SolvedString
        THEN Return(d, [d.response EXCEPT !.Solution = <<>>, !.MoveCount = 0])
        ELSE [d EXCEPT !.pc = "call", !.kociembaString = k.value]

Convert(r) ==
    /\ req[r].pc = "convert"
    /\ req' = [req EXCEPT ![r] = SolveConvert(req[r])]
    /\ UNCHANGED <<Inputs, Shared>>

\* SearchRunTime.solution(kociembaString, out info, maxDepth: 22, timeOut: 10000, ...)
CallSearch(r) ==
    /\ req[r].pc = "call"
    /\ req' = [req EXCEPT ![r].pc = "ensure",
                          ![r].calls = Append(@, "SearchRunTime.solution")]
    /\ UNCHANGED <<Inputs, Shared>>

\* A guard that lets every request in
LockIgnored == TRUE

\* The build-once guard: the lock is free
LockFree == initLock = 0

AcquireInitLock(r) ==
    /\ req[r].pc = "ensure"
    /\ LockFree
    /\ initLock' = r
    /\ req' = [req EXCEPT ![r].pc = IF tablesInitialized THEN "release" ELSE "build"]
    /\ UNCHANGED <<Inputs, tablesInitialized, tables, buildCount>>

BuildTables(r) ==
    /\ req[r].pc = "build"
    /\ tables' = "partial"
    /\ buildCount' = buildCount + 1
    /\ req' = [req EXCEPT ![r].pc = "building"]
    /\ UNCHANGED <<Inputs, tablesInitialized, initLock>>

FinishBuild(r) ==
    /\ req[r].pc = "building"
    /\ tables' = "built"
    /\ tablesInitialized' = TRUE
    /\ req' = [req EXCEPT ![r].pc = "release"]
    /\ UNCHANGED <<Inputs, initLock, buildCount>>

ReleaseInitLock(r) ==
    /\ req[r].pc = "release"
    /\ initLock' = 0
    /\ req' = [req EXCEPT ![r].pc = "search"]
    /\ UNCHANGED <<Inputs, tablesInitialized, tables, buildCount>>

\* The engine returns solutionString
SearchReturns(r, str) ==
    /\ req' = [req EXCEPT ![r].pc = "returned", ![r].solutionString = str]
    /\ UNCHANGED <<Inputs, Shared>>

\* The cube is verified before any search: "Error 1" .. "Error 6" if it fails
SearchVerify(r) ==
    /\ req[r].pc = "search"
    /\ \E v \in {verify(req[r].kociembaString)} :
          req' = IF v # 0
                 THEN [req EXCEPT ![r].pc = "returned",
                                  ![r].solutionString = ErrorString(0 - v)]
                 ELSE [req EXCEPT ![r].pc = "searching"]
    /\ UNCHANGED <<Inputs, Shared>>

\* The time budget is checked at every search node
TimeIsUp(elapsed) == elapsed >= timeOut

Searchable(r) == req[r].pc = "searching"

SearchTimesOut(r) ==
    /\ Searchable(r)
    /\ TimeIsUp(req[r].elapsed)
    /\ SearchReturns(r, ErrorString(8))

\* One more search node expanded, and time passes
SearchTick(r) ==
    /\ Searchable(r)
    /\ ~TimeIsUp(req[r].elapsed)
    /\ req[r].elapsed < timeOut + TickMs
    /\ req' = [req EXCEPT ![r].elapsed = @ + TickMs]
    /\ UNCHANGED <<Inputs, Shared>>

SearchFinds(r) ==
    /\ Searchable(r)
    /\ ~TimeIsUp(req[r].elapsed)
    /\ \E ms \in Solutions(req[r].kociembaString) :
          SearchReturns(r, SolutionToString(ms))

\* The whole search space within the depth limit holds no solution
SearchExhausted(r) ==
    /\ Searchable(r)
    /\ ~TimeIsUp(req[r].elapsed)
    /\ Solutions(req[r].kociembaString) = {}
    /\ SearchReturns(r, ErrorString(7))

\* Solve parsing whatever the engine returned, without the test for "Error"
SolveFinishNoErrorCheck(c) ==
    LET moves == ParseSolution(c.solutionString)
    IN  Return(c, [c.response EXCEPT !.Solution = moves, !.MoveCount = Len(moves)])

\* Solve counting the characters of the solution string instead of its moves
SolveFinishCountsChars(c) ==
    IF StartsWithError(c.solutionString)
    THEN Return(c, [c.response EXCEPT !.Error = <<GetErrorMessage(Concat(c.solutionString))>>])
    ELSE LET moves == ParseSolution(c.solutionString)
         IN  Return(c, [c.response EXCEPT !.Solution = moves,
                                          !.MoveCount = Len(c.solutionString)])

\* if (solutionString.StartsWith("Error")) ... else ParseSolution ...
SolveFinish(c) ==
    IF StartsWithError(c.solutionString)
    THEN Return(c, [c.response EXCEPT !.Error = <<GetErrorMessage(Concat(c.solutionString))>>])
    ELSE LET moves == ParseSolution(c.solutionString)
         IN  Return(c, [c.response EXCEPT !.Solution = moves, !.MoveCount = Len(moves)])

\* Solve keeping its response in a field that all calls share
FinishShared(r) ==
    /\ req[r].pc = "returned"
    /\ \E c \in {SolveFinish(req[r])} :
          req' = [q \in Reqs |-> IF q = r THEN c ELSE [req[q] EXCEPT !.response = c.response]]
    /\ UNCHANGED <<Inputs, Shared>>

Finish(r) ==
    /\ req[r].pc = "returned"
    /\ req' = [req EXCEPT ![r] = SolveFinish(req[r])]
    /\ UNCHANGED <<Inputs, Shared>>

\* Every step of one Solve call after its submission
Step(r) ==
    \/ Validate(r)
    \/ Convert(r)
    \/ CallSearch(r)
    \/ AcquireInitLock(r)
    \/ BuildTables(r)
    \/ FinishBuild(r)
    \/ ReleaseInitLock(r)
    \/ SearchVerify(r)
    \/ SearchTimesOut(r)
    \/ SearchTick(r)
    \/ SearchFinds(r)
    \/ SearchExhausted(r)
    \/ Finish(r)

----------------------------------------------------------------------------
(* Specifications *)

\* One Solve call on a layout built by turns or by edits
Next ==
    \/ \E m \in Moves : Turn(MaxTurns, m)
    \/ Scramble(MaxTurns)
    \/ \E fl \in EditStickers, t \in Tokens : SetSticker(MaxSolveEdits, fl, t)
    \/ \E f \in EditFaces : Truncate(MaxSolveEdits, f)
    \/ Submit(1, layout)
    \/ Step(1)

Spec == Init /\ [][Next]_vars

\* The validator alone, on layouts built by turns or by edits
NextValidate ==
    \/ \E m \in Moves : Turn(MaxTurns, m)
    \/ \E fl \in EditStickers, t \in Tokens : SetSticker(MaxEdits, fl, t)
    \/ \E f \in EditFaces : Truncate(MaxEdits, f)
    \/ RunValidate

SpecValidate == Init /\ [][NextValidate]_vars

\* One Solve call whose thread keeps running
NextTimed ==
    \/ \E m \in Moves : Turn(MaxTimedTurns, m)
    \/ Scramble(MaxTimedTurns)
    \/ \E fl \in EditStickers, t \in Tokens : SetSticker(MaxSolveEdits, fl, t)
    \/ \E f \in EditFaces : Truncate(MaxSolveEdits, f)
    \/ Submit(1, layout)
    \/ Step(1)

FairSpec == Init /\ [][NextTimed]_vars /\ WF_vars(Step(1))

\* Tools.verify on cube strings made from turned layouts
NextVerify ==
    \/ \E m \in Moves : Turn(MaxTurns, m)
    \/ Scramble(MaxTurns)
    \/ VerifyLayout
    \/ \E p \in EditPositions, ch \in EditChars : VerifyEdited(p, ch)
    \/ \E p \in EditPositions, q \in EditPositions : VerifySwapped(p, q)
    \/ \E n \in ShortLengths : VerifyShort(n)

SpecVerify == Init /\ [][NextVerify]_vars

\* One call of Tools.randomCube
NextRandom ==
    \/ RandomCubeStart
    \/ RandomCubeResample
    \/ RandomCubeReturn

SpecRandom == Init /\ [][NextRandom]_vars

\* A pass of the loop that draws permutations of the given parities
Draws(cornerP, edgeP) ==
    /\ RandomCubeResample
    /\ cornerParity(tool'.cc) = cornerP
    /\ edgeParity(tool'.cc) = edgeP

\* randomCube runs on: the call is not suspended for ever, and the random
\* source is fair, each combination of parities being drawn again and again
FairRandom ==
    /\ SpecRandom
    /\ WF_vars(RandomCubeResample)
    /\ WF_vars(RandomCubeReturn)
    /\ \A cornerP \in {0, 1}, edgeP \in {0, 1} : SF_vars(Draws(cornerP, edgeP))

\* The same call with a random source that may draw anything for ever
UnfairRandom ==
    /\ SpecRandom
    /\ WF_vars(RandomCubeResample)
    /\ WF_vars(RandomCubeReturn)

\* Request bodies of concurrent calls: solved, one turn away, scrambled,
\* an unknown centre token, a wrong edge sticker and a short array
SampleLayouts ==
    { createInitialState,
      updateState(createInitialState, <<"R">>),
      replay(createInitialState, SampleScramble),
      [createInitialState EXCEPT !["U"][5] = "X"],
      [createInitialState EXCEPT !["U"][8] = "R"],
      [createInitialState EXCEPT !["U"] = SubSeq(@, 1, 8)] }

NextConcurrent ==
    \/ \E r \in Reqs, s \in SampleLayouts : Submit(r, s)
    \/ \E r \in Reqs : Step(r)

SpecConcurrent == Init /\ [][NextConcurrent]_vars

\* Every thread serving a request keeps running
FairConcurrent == SpecConcurrent /\ \A r \in Reqs : WF_vars(Step(r))

----------------------------------------------------------------------------
(* Properties *)

Done(r) == req[r].pc = "done"

Failed(r) == req[r].response.Error # <<>>

Called(r, name) == \E k \in 1..Len(req[r].calls) : req[r].calls[k] = name

\* The layout was built by face turns only
Legal == edits = 0

\* C1: for a layout reached from the solved cube by face turns, whenever Solve
\* returns a success, replaying the returned moves in order on the submitted
\* layout with the client's rotateFace/updateState gives the solved layout.
C1_ReplaySolves ==
    (Done(1) /\ ~Failed(1) /\ Legal)
        => replay(req[1].state, req[1].response.Solution) = createInitialState

\* A success with at least two moves on a turned layout
C1_Witness ==
    Done(1) /\ ~Failed(1) /\ Legal /\ Len(req[1].response.Solution) >= 2

\* The colours at an edge or corner position, as an unordered set
EdgeSet(s, p) == {At(s, p[1], p[2]), At(s, p[3], p[4])}
CornerSet(s, p) == {At(s, p[1], p[2]), At(s, p[3], p[4]), At(s, p[5], p[6])}

\* Each canonical colour pair and each canonical colour triple occurs at exactly
\* one position
EachPieceOnce(s) ==
    /\ ~ReadsOutOfRange(s)
    /\ \A k \in 1..Len(validEdges) :
          Cardinality({j \in 1..Len(edgePositions) :
              EdgeSet(s, edgePositions[j]) = {validEdges[k][1], validEdges[k][2]}}) = 1
    /\ \A k \in 1..Len(validCorners) :
          Cardinality({j \in 1..Len(cornerPositions) :
              CornerSet(s, cornerPositions[j])
                  = {validCorners[k][1], validCorners[k][2], validCorners[k][3]}}) = 1

\* C2: ValidateState returns null if and only if each of the 12 canonical edge
\* colour pairs occurs exactly once among the 12 edge positions and each of the 8
\* canonical corner colour triples exactly once among the 8 corner positions, a
\* piece being its unordered set of colours.
C2_NullIffEachPieceOnce ==
    vres.kind # "none" => ((vres.kind = "null") <=> EachPieceOnce(layout))

\* C3: if the validator reports an issue, Solve returns an error without calling
\* ToKociembaString or the search engine; and validation is the first call of
\* every Solve.
C3_ValidationFirst ==
    /\ req[1].calls # <<>> => req[1].calls[1] = "ValidateState"
    /\ req[1].validationResult = "result"
          => /\ Done(1) /\ Failed(1)
             /\ ~Called(1, "ToKociembaString")
             /\ ~Called(1, "SearchRunTime.solution")

\* A finished call whose layout the validator reported
C3_Witness ==
    /\ Done(1) /\ Failed(1)
    /\ req[1].validationResult = "result"
    /\ req[1].calls = <<"ValidateState">>

\* C4: Solve on the solved layout returns no error, an empty move list and move
\* count 0, and does not call the search engine.
C4_SolvedShortcut ==
    (Done(1) /\ req[1].state = createInitialState)
        => /\ ~Failed(1)
           /\ req[1].response.Solution = <<>>
           /\ req[1].response.MoveCount = 0
           /\ ~Called(1, "SearchRunTime.solution")

\* A finished call on the solved layout
C4_Witness ==
    Done(1) /\ req[1].state = createInitialState /\ Called(1, "ToKociembaString")

\* C5: in every response Solve returns, an error comes with an empty move list
\* and move count 0, and without an error the move count is the length of the
\* move list.
C5_ResponseShape ==
    Done(1) => /\ Failed(1) => /\ req[1].response.Solution = <<>>
                               /\ req[1].response.MoveCount = 0
               /\ ~Failed(1) => req[1].response.MoveCount = Len(req[1].response.Solution)

\* A finished call with an error that the search engine returned
C5_Witness ==
    Done(1) /\ Failed(1) /\ Called(1, "SearchRunTime.solution")

\* The number of stickers of a colour in a layout
ColourCount(s, c) ==
    Cardinality({<<f, i>> \in Faces \X (1..9) : i <= Len(s[f]) /\ s[f][i] = c})

Has54(s) == \A f \in Faces : Len(s[f]) = 9

\* C6: a 54-sticker layout in which some colour does not occur exactly 9 times
\* gets a report with issues from ValidateState.
C6_WrongCountRejected ==
    (vres.kind # "none" /\ Has54(layout)
        /\ \E c \in StickerColor : ColourCount(layout, c) # 9)
        => vres.kind = "result"

\* C7: a layout holding a token outside {W,Y,G,B,R,O} at some sticker position
\* does not get success from ValidateState.
C7_UnknownTokenReported ==
    (vres.kind # "none"
        /\ \E f \in Faces : \E i \in 1..Len(layout[f]) : layout[f][i] \notin StickerColor)
        => vres.kind # "null"

\* C8: ValidateState never throws, whatever tokens the face arrays hold and
\* whatever their lengths.
C8_NeverThrows == vres.kind # "throw"

C10_TerminatesOrTimesOut ==
    /\ [](Done(1) /\ req[1].elapsed >= timeOut
            => /\ req[1].response.Error
                    = <<"Timeout - no solution found within time limit">>
               /\ req[1].response.Solution = <<>>)
    /\ (req[1].pc # "idle") ~> Done(1)

\* A finished call whose search used up the time budget
C10_Witness == Done(1) /\ req[1].elapsed >= timeOut /\ Failed(1)

\* The call reached the search with a cube that passes the engine's verification
\* and has no solution within the depth the engine explores
NoShortSolution(r) ==
    /\ Called(r, "SearchRunTime.solution")
    /\ verify(req[r].kociembaString) = 0
    /\ Solutions(req[r].kociembaString) = {}

ErrorText(n) == GetErrorMessage(Concat(ErrorString(n)))

\* C12: the texts of the depth-exceeded outcome (7) and of the timeout outcome (8)
\* differ from each other and from those of the six structural defects (1..6),
\* so one response, having one Error, carries at most one of them; and a response
\* carries either only if validation returned null, the layout converted to a
\* string other than the solved one, and the search engine was called.
C12_SearchLimitErrors ==
    /\ \A m \in {7, 8}, n \in 1..8 : m # n => ErrorText(m) # ErrorText(n)
    /\ (Done(1) /\ req[1].response.Error \in {<<ErrorText(7)>>, <<ErrorText(8)>>})
          => /\ req[1].validationResult = "null"
             /\ ToKociembaString(req[1].state).kind = "ok"
             /\ ToKociembaString(req[1].state).value # SolvedString
             /\ ~IsSolved(req[1].state)
             /\ Called(1, "SearchRunTime.solution")
             /\ req[1].response.Solution = <<>>

\* A validated, unsolved layout came back with the timeout error
C12_Witness ==
    /\ Done(1) /\ req[1].validationResult = "null"
    /\ req[1].response.Error = <<"Timeout - no solution found within time limit">>

\* C13: no Solve call ends by throwing; a call whose ValidateState threw, or
\* whose ToKociembaString threw, has returned a response whose Error is the
\* exception's message, whose SolveTimeMs is the elapsed time and whose move
\* list is empty.
C13_FaultsReported ==
    /\ req[1].pc # "thrown"
    /\ req[1].validationResult = "throw"
          => /\ Done(1)
             /\ req[1].response.Error = <<ValidateState(req[1].state).message>>
             /\ req[1].response.SolveTimeMs = req[1].elapsed
             /\ req[1].response.Solution = <<>>
    /\ (Called(1, "ToKociembaString") /\ ToKociembaString(req[1].state).kind = "throw")
          => /\ Done(1)
             /\ req[1].response.Error = <<ToKociembaString(req[1].state).message>>
             /\ req[1].response.SolveTimeMs = req[1].elapsed
             /\ req[1].response.Solution = <<>>

\* A call whose conversion threw KeyNotFoundException has returned
C13_Witness ==
    /\ Done(1) /\ Called(1, "ToKociembaString")
    /\ ToKociembaString(req[1].state).kind = "throw"

\* A call whose validation threw IndexOutOfRangeException has returned
C13_WitnessValidation ==
    Done(1) /\ req[1].validationResult = "throw"

\* C14: Tools.verify returns 0 on the facelet string of every layout obtained
\* from the solved one by face turns of the client's cube.
C14_TurnedCubeVerifies ==
    (tool.op = "verify" /\ tool.of = "layout") => tool.code = 0

\* verify has run on the string of the 20-turn scramble
C14_Witness ==
    /\ tool.op = "verify" /\ tool.of = "layout"
    /\ layout = replay(createInitialState, SampleScramble)

\* The first 54 characters are 9 of each of the six face letters
NineOfEach(str) ==
    /\ Len(str) >= 54
    /\ \A c \in CubeColor : Cardinality({i \in 1..54 : str[i] = c}) = 9

\* C15: Tools.verify returns -1 for every string whose 54 characters are not
\* exactly 9 of each of the six face colours (shorter strings included), and it
\* does so before any facelet-to-cubie conversion; for a string with 9 of each
\* colour it returns 0 or one of the other defect codes -2 .. -6.
C15_WrongCountsCode ==
    tool.op = "verify"
        => /\ ~NineOfEach(tool.s) => (tool.code = -1 /\ tool.calls = <<>>)
           /\ NineOfEach(tool.s) => tool.code \in {0, -2, -3, -4, -5, -6}

\* C16: the cube randomCube returns has equal corner and edge permutation
\* parities, and from the moment flip and twist are set, through every pass of
\* the re-sampling loop, the cube keeps the flip and the twist that were drawn
\* before the loop.
C16_RandomCubeParity ==
    tool.op = "randomCube"
        => /\ tool.pc \in {"exit", "returned"}
                 => cornerParity(tool.cc) = edgeParity(tool.cc)
           /\ tool.cc.flip = tool.sampled.flip
           /\ tool.cc.twist = tool.sampled.twist

\* A cube returned after at least two passes of the loop, with a corner
\* permutation other than the identity and non-zero flip and twist
C16_Witness ==
    /\ tool.op = "randomCube" /\ tool.pc = "returned"
    /\ tool.draws >= 2
    /\ tool.cc.cp # SolvedCubie.cp
    /\ tool.cc.flip # 0 /\ tool.cc.twist # 0

\* C17: for every sticker state (whatever its nine tokens per face) and every
\* one of the 18 moves, updateState with the move and then with its inverse
\* according to inverseMoves gives back exactly the same state.
C17_InverseRoundTrip ==
    Has54(layout)
        => \A m \in Moves :
              updateState(updateState(layout, m), getInverseMove(m)) = layout

\* A state two turns away from the solved one
C17_Witness == Has54(layout) /\ turns = MaxTurns /\ layout # createInitialState

\* A state with stickers that are no colours
C17_WitnessEdited ==
    /\ Has54(layout) /\ edits = MaxEdits
    /\ At(layout, "U", 7) = "X" /\ At(layout, "F", 1) = "GW"

\* A state whose 54 stickers are all different: each holds its own position
Labelled == [f \in Faces |-> [k \in 1..9 |-> <<f, k - 1>>]]

\* The stickers of a state, as a set
StickerSet(s) == {s[f][k] : f \in Faces, k \in 1..9}

\* Each move rearranges the 54 labels and keeps the six centre labels in place
MovesArePermutations ==
    \A m \in Moves :
        /\ StickerSet(updateState(Labelled, m)) = StickerSet(Labelled)
        /\ \A f \in Faces : At(updateState(Labelled, m), f, 4) = <<f, 4>>

\* C18: each of the 18 moves rearranges the 54 stickers without losing or
\* doubling one and leaves the six centre stickers where they are; and every
\* layout reached from the solved one by moves has exactly 9 stickers of each
\* colour, with its centres unchanged.
C18_MovesPermuteStickers ==
    /\ MovesArePermutations
    /\ Legal
          => /\ \A c \in StickerColor : ColourCount(layout, c) = 9
             /\ \A f \in Faces : At(layout, f, 4) = At(createInitialState, f, 4)

\* A layout after turns, in which the front face is no longer of one colour
C18_Witness == Legal /\ turns >= 1 /\ layout["F"] # Nine("G")

\* The canonical position names of the validator's tables
EdgePositionNames == {edgePositions[j][5] : j \in 1..Len(edgePositions)}
CornerPositionNames == {cornerPositions[j][7] : j \in 1..Len(cornerPositions)}

\* Every item of the list has a position name among its parts
ItemsNamePosition(items, names) ==
    \A k \in 1..Len(items) : \E j \in 1..Len(items[k]) : items[k][j] \in names

\* C19: every item of a validation report - missing, duplicate or invalid, edge
\* or corner - contains the canonical name of a position (UF, UFR, ...).
C19_ItemsCarryPosition ==
    vres.kind = "result"
        => /\ ItemsNamePosition(vres.result.InvalidEdges, EdgePositionNames)
           /\ ItemsNamePosition(vres.result.DuplicateEdges, EdgePositionNames)
           /\ ItemsNamePosition(vres.result.MissingEdges, EdgePositionNames)
           /\ ItemsNamePosition(vres.result.InvalidCorners, CornerPositionNames)
           /\ ItemsNamePosition(vres.result.DuplicateCorners, CornerPositionNames)
           /\ ItemsNamePosition(vres.result.MissingCorners, CornerPositionNames)

\* The elapsed times at which a search running alone can end
SoloElapsed == {k * TickMs : k \in 0..((timeOut + TickMs - 1) \div TickMs)}

\* What the engine can hand back, and after how long, for a cube string searched
\* by a call running alone
SoloOutcomes(kstr) ==
    LET v == verify(kstr)
        early == {e \in SoloElapsed : ~TimeIsUp(e)}
        late == {e \in SoloElapsed : TimeIsUp(e)}
    IN  IF v # 0 THEN {<<ErrorString(0 - v), 0>>}
        ELSE {<<SolutionToString(ms), e>> : ms \in Solutions(kstr), e \in early}
             \cup (IF Solutions(kstr) = {} THEN {<<ErrorString(7), e>> : e \in early} ELSE {})
             \cup {<<ErrorString(8), e>> : e \in late}

\* The responses Solve can return for a layout when no other call is running
SoloResponses(s) ==
    LET validated == SolveValidate(Call("validate", s), ValidateState(s))
        converted == SolveConvert(validated)
    IN  IF validated.pc = "done" THEN {validated.response}
        ELSE IF converted.pc = "done" THEN {converted.response}
        ELSE {SolveFinish([converted EXCEPT !.solutionString = o[1],
                                             !.elapsed = o[2]]).response :
                 o \in SoloOutcomes(converted.kociembaString)}

SoloTable == {<<s, SoloResponses(s)>> : s \in SampleLayouts}

SoloOf(s) == (CHOOSE p \in SoloTable : p[1] = s)[2]

\* C20: in every interleaving of concurrent Solve calls, a call that has
\* returned has returned one of the responses Solve can return for its layout
\* when it runs alone; and no step changes the data of more than one call.
C20_CallsIndependent ==
    /\ [](\A r \in Reqs : Done(r) => req[r].response \in SoloOf(req[r].state))
    /\ [][Cardinality({q \in Reqs : req'[q] # req[q]}) <= 1]_vars

\* Two calls on different layouts have both returned, one with a move list and
\* one with an error
C20_Witness ==
    /\ Done(1) /\ Done(2)
    /\ req[1].state # req[2].state
    /\ ~Failed(1) /\ Len(req[1].response.Solution) > 0
    /\ Failed(2)

\* C21: from the moment Solve is called, through all its steps and after its
\* return with a move list or with any error, the CubeState it was given holds
\* the same stickers as the request body that was submitted.
C21_InputUnchanged ==
    req[1].pc # "idle" => req[1].state = layout

\* Solve has returned a move list for a layout that is not the solved one
C21_Witness ==
    /\ Done(1) /\ ~Failed(1)
    /\ req[1].state # createInitialState
    /\ Len(req[1].response.Solution) > 0

\* Solve has returned an error for an edited layout
C21_WitnessError == Done(1) /\ Failed(1) /\ edits > 0

\* Every sticker of the layout is one of the six colours
AllColours(s) == \A f \in Faces : \A i \in 1..Len(s[f]) : s[f][i] \in StickerColor

\* The call took the fast path: it returned an empty success without a search
FastPath(r) ==
    /\ Done(r) /\ ~Failed(r)
    /\ ~Called(r, "SearchRunTime.solution")

\* C22: for a layout of 54 stickers over the six colours, ToKociembaString
\* returns 54 characters, the sticker i of face f at position i of f's block in
\* the order U,R,F,D,L,B as that sticker's face letter; the string is the
\* solved literal exactly if IsSolved holds; and a Solve call that has
\* converted such a layout took the fast path exactly if IsSolved holds.
C22_StringOrderAndSolved ==
    /\ (Has54(layout) /\ AllColours(layout))
          => \E k \in {ToKociembaString(layout)} :
                /\ k.kind = "ok"
                /\ Len(k.value) = 54
                /\ \A f \in Faces, i \in 0..8 :
                      k.value[KIndex(f, i)] = colorToFace[At(layout, f, i)]
                /\ (k.value = SolvedString) <=> IsSolved(layout)
    /\ (Called(1, "ToKociembaString") /\ Has54(req[1].state) /\ AllColours(req[1].state))
          => (FastPath(1) <=> IsSolved(req[1].state))

\* A turned layout, not solved, has been converted and sent to the search
C22_Witness ==
    /\ Called(1, "ToKociembaString") /\ Called(1, "SearchRunTime.solution")
    /\ turns > 0 /\ ~IsSolved(req[1].state)

\* C25: on every layout obtained from the solved one by moves of the client's
\* tracker, ValidateState returns null (no missing, duplicate or invalid edge
\* or corner, and no exception).
C25_TurnedLayoutAccepted ==
    (Legal /\ vres.kind # "none") => vres.kind = "null"

\* The validator has run on a layout MaxTurns moves away from the solved one
C25_Witness ==
    /\ Legal /\ vres.kind = "null"
    /\ turns = MaxTurns /\ ~IsSolved(layout)

----------------------------------------------------------------------------
(* The cube page: App's handlers, each cut at its awaits.  The browser runs  *)
(* one handler or one continuation at a time; what a handler awaits (a       *)
(* rotation's last animation frame, the answer to fetch, the 50 ms timer of  *)
(* togglePlay) arrives later, in any order.                                  *)

MaxManual == 3     \* manual moves, scrambles and resets the page accepts
MaxSolves == 2     \* solve requests the page sends
MaxClicks == 3     \* clicks on the playback buttons the page accepts

\* The moves of the keys and move buttons that are pressed
PressedMoves == {<<"R">>, <<"U", "'">>}

NotApp == <<layout, turns, edits, vres, req, tablesInitialized, initLock, tables,
            buildCount, tool, game>>

\* App.clearSolution
clearSolution(a) ==
    [a EXCEPT !.solution = <<>>, !.solutionIndex = -1, !.isPlaying = FALSE,
              !.shown = FALSE]

\* App.updatePlaybackButtons
updatePlaybackButtons(a) ==
    [a EXCEPT !.prevDisabled = a.solutionIndex < 0,
              !.nextDisabled = a.solutionIndex >= Len(a.solution) - 1,
              !.playDisabled = a.solutionIndex >= Len(a.solution) - 1]

\* App.disableButtons: every button but playBtn, then the playback buttons
disableButtons(a, disabled) ==
    With([a EXCEPT !.disabled = disabled, !.prevDisabled = disabled,
                   !.nextDisabled = disabled],
         LAMBDA b : IF ~disabled /\ Len(b.solution) > 0
                    THEN updatePlaybackButtons(b) ELSE b)

\* this.isAnimating = true; this.disableButtons(true)
Lock(a) == disableButtons([a EXCEPT !.isAnimating = TRUE], TRUE)

\* this.isAnimating = false; this.disableButtons(false)
Unlock(a) == disableButtons([a EXCEPT !.isAnimating = FALSE], FALSE)

\* The number under which a handler's await is kept: the first one free
FreeId(a) == CHOOSE i \in 1..(Cardinality(a.awaited) + 1) :
                /\ \A o \in a.awaited : o.id # i
                /\ \A j \in 1..(i - 1) : \E o \in a.awaited : o.id = j

\* A handler reaches an await: of a rotation (rubiksCube.rotate), or of fetch
Await(a, of, move, rest, inLoop, sent) ==
    [a EXCEPT !.awaited = @ \cup {[id |-> FreeId(a), of |-> of, move |-> move,
                                   rest |-> rest, inLoop |-> inLoop, sent |-> sent]}]

\* What an array gives outside its indices
Undefined == <<"undefined">>

\* this.solution[i]
SolutionAt(a, i) ==
    IF i + 1 \in 1..Len(a.solution) THEN a.solution[i + 1] ELSE Undefined

\* await this.rubiksCube.rotate(move, ...): getCubiesForMove calls move.replace,
\* which throws on undefined; the promise is rejected and the awaiting handler
\* ends there, with no catch around it
AwaitRotate(a, of, move, rest, inLoop) ==
    IF move = Undefined THEN a
    ELSE Await(a, of, move, rest, inLoop, createInitialState)

\* App.executeMove up to its await
executeMove(a, move) == AwaitRotate(Lock(a), "executeMove", move, <<>>, FALSE)

\* App.scramble up to its first await
scramble(a, scrambleMoves) ==
    AwaitRotate(clearSolution(Lock(a)), "scramble", Head(scrambleMoves),
                Tail(scrambleMoves), FALSE)

\* App.solve up to its await of fetch: the body holds rubiksCube.getState()
solve(a) == Await(Lock(a), "solve", <<>>, <<>>, FALSE, a.cube)

\* The guard of App.stepNext
CanStepNext(a) ==
    ~(Len(a.solution) = 0 \/ a.solutionIndex >= Len(a.solution) - 1)

\* App.stepNext up to its await (inLoop: called by togglePlay's loop)
stepNext(a, inLoop) ==
    With([a EXCEPT !.solutionIndex = @ + 1],
         LAMBDA b : AwaitRotate(Lock(b), "stepNext", SolutionAt(b, b.solutionIndex),
                                <<>>, inLoop))

\* The guard of App.stepPrev
CanStepPrev(a) == ~(Len(a.solution) = 0 \/ a.solutionIndex < 0)

\* App.stepPrev up to its await
stepPrev(a) ==
    AwaitRotate(Lock(a), "stepPrev", getInverseMove(SolutionAt(a, a.solutionIndex)),
                <<>>, FALSE)

\* togglePlay's while loop from its condition to its next await, or to its exit
PlayLoop(a) ==
    IF a.isPlaying /\ a.solutionIndex < Len(a.solution) - 1
    THEN stepNext(a, TRUE)
    ELSE [a EXCEPT !.isPlaying = FALSE]

\* App.reset
reset(a) ==
    clearSolution([a EXCEPT !.cube = createInitialState, !.moveHistory = <<>>])

\* The rest of executeMove after its rotation (recordHistory = true)
executeMoveDone(a, o) ==
    Unlock(clearSolution([a EXCEPT !.moveHistory = Append(@, o.move)]))

\* The rest of scramble after a rotation: the next move, or the end
scrambleDone(a, o) ==
    With([a EXCEPT !.moveHistory = Append(@, o.move)],
         LAMBDA b : IF o.rest # <<>>
                    THEN [b EXCEPT !.awaited = @ \cup {[o EXCEPT !.move = Head(o.rest),
                                                                  !.rest = Tail(o.rest)]}]
                    ELSE Unlock(b))

\* The rest of stepNext after its rotation, then togglePlay's loop if it was the caller
stepNextDone(a, o) ==
    With(updatePlaybackButtons(Unlock(a)),
         LAMBDA b :
            With(IF b.solutionIndex = Len(b.solution) - 1
                 THEN [b EXCEPT !.moveHistory = <<>>] ELSE b,
                 LAMBDA c :
                    IF ~o.inLoop THEN c
                    ELSE IF c.solutionIndex < Len(c.solution) - 1
                         THEN [c EXCEPT !.timers = @ + 1]
                         ELSE PlayLoop(c)))

\* The rest of stepPrev after its rotation
stepPrevDone(a, o) ==
    updatePlaybackButtons(Unlock([a EXCEPT !.solutionIndex = @ - 1]))

\* The catch block of solve and the statements after it
solveFailed(a) == Unlock(a)

\* The rest of solve on a result without error
solveDone(a, o, solution) ==
    IF Len(solution) = 0
    THEN Unlock(clearSolution(a))
    ELSE Unlock(updatePlaybackButtons(
             [a EXCEPT !.solution = solution, !.solutionIndex = -1,
                       !.shown = TRUE, !.sent = o.sent]))

\* What POST /api/cube/solve answers for a state: CubeController.Solve returns
\* Ok(response) with the response of CubeSolver.Solve
Answers(state) ==
    {[solution |-> r.Solution, error |-> r.Error] : r \in SoloResponses(state)}

\* keydown of a face key, or click on a move button
PressMove(m) ==
    /\ ~app.isAnimating
    /\ app.manual < MaxManual
    /\ app' = executeMove([app EXCEPT !.manual = @ + 1], m)
    /\ UNCHANGED NotApp

\* click on scrambleBtn
ScrambleClick ==
    /\ ~app.disabled
    /\ ~app.isAnimating
    /\ app.manual < MaxManual
    /\ Len(SampleScramble) = scrambleLength
    /\ app' = scramble([app EXCEPT !.manual = @ + 1], SampleScramble)
    /\ UNCHANGED NotApp

\* click on solveBtn
SolveClick ==
    /\ ~app.disabled
    /\ ~app.isAnimating
    /\ app.solves < MaxSolves
    /\ app' = solve([app EXCEPT !.solves = @ + 1])
    /\ UNCHANGED NotApp

\* click on resetBtn
ResetClick ==
    /\ ~app.disabled
    /\ ~app.isAnimating
    /\ app.manual < MaxManual
    /\ app' = reset([app EXCEPT !.manual = @ + 1])
    /\ UNCHANGED NotApp

\* click on prevBtn
PrevClick ==
    /\ app.shown /\ ~app.prevDisabled
    /\ ~(app.isAnimating \/ app.isPlaying)
    /\ CanStepPrev(app)
    /\ app.clicks < MaxClicks
    /\ app' = stepPrev([app EXCEPT !.clicks = @ + 1])
    /\ UNCHANGED NotApp

\* click on nextBtn
NextClick ==
    /\ app.shown /\ ~app.nextDisabled
    /\ ~(app.isAnimating \/ app.isPlaying)
    /\ CanStepNext(app)
    /\ app.clicks < MaxClicks
    /\ app' = stepNext([app EXCEPT !.clicks = @ + 1], FALSE)
    /\ UNCHANGED NotApp

\* click on playBtn: App.togglePlay up to its first await
PlayClick ==
    /\ app.shown /\ ~app.playDisabled
    /\ ~app.isAnimating
    /\ app.clicks < MaxClicks
    /\ IF app.isPlaying
       THEN app' = [app EXCEPT !.isPlaying = FALSE, !.clicks = @ + 1]
       ELSE /\ CanStepNext(app)
            /\ app' = PlayLoop([app EXCEPT !.isPlaying = TRUE, !.clicks = @ + 1])
    /\ UNCHANGED NotApp

\* The 50 ms timer of a togglePlay loop fires
TimerFires ==
    /\ app.timers > 0
    /\ app' = PlayLoop([app EXCEPT !.timers = @ - 1])
    /\ UNCHANGED NotApp

\* The last animation frame of a rotation: updateState, then the awaiting handler
RotationCompletes(o) ==
    /\ o \in app.awaited
    /\ o.of # "solve"
    /\ \E a \in {[app EXCEPT !.cube = updateState(@, o.move), !.awaited = @ \ {o}]} :
          app' = CASE o.of = "executeMove" -> executeMoveDone(a, o)
                   [] o.of = "scramble" -> scrambleDone(a, o)
                   [] o.of = "stepNext" -> stepNextDone(a, o)
                   [] o.of = "stepPrev" -> stepPrevDone(a, o)
    /\ UNCHANGED NotApp

\* The server's answer to a solve request arrives
ResponseArrives(o) ==
    /\ o \in app.awaited
    /\ o.of = "solve"
    /\ \E r \in Answers(o.sent), a \in {[app EXCEPT !.awaited = @ \ {o}]} :
          app' = IF r.error # <<>> THEN solveFailed(a)
                 ELSE solveDone(a, o, r.solution)
    /\ UNCHANGED NotApp

\* fetch rejects, or the status is not ok
RequestFails(o) ==
    /\ o \in app.awaited
    /\ o.of = "solve"
    /\ app' = solveFailed([app EXCEPT !.awaited = @ \ {o}])
    /\ UNCHANGED NotApp

\* The cube page under every order of user events and awaited completions
NextApp ==
    \/ \E m \in PressedMoves : PressMove(m)
    \/ ScrambleClick
    \/ SolveClick
    \/ ResetClick
    \/ PrevClick
    \/ NextClick
    \/ PlayClick
    \/ TimerFires
    \/ \E o \in app.awaited : RotationCompletes(o)
    \/ \E o \in app.awaited : ResponseArrives(o)
    \/ \E o \in app.awaited : RequestFails(o)

SpecApp == Init /\ [][NextApp]_vars

\* The same, when every rotation reaches its last frame, every request settles
\* and every timer fires
FairApp ==
    /\ SpecApp
    /\ WF_vars(\E o \in app.awaited : RotationCompletes(o))
    /\ WF_vars(\E o \in app.awaited : RequestFails(o) \/ ResponseArrives(o))
    /\ WF_vars(TimerFires)

\* C23: at most one rotation is in progress at any time, that is, rotate is
\* never called while the promise of an earlier rotate call is still pending.
C23_OneRotation ==
    Cardinality({o \in app.awaited : o.of # "solve"}) <= 1

\* C29: in every reachable state the playback cursor is in range,
\* -1 <= solutionIndex <= solution.length - 1.
C29_CursorInRange ==
    -1 <= app.solutionIndex /\ app.solutionIndex <= Len(app.solution) - 1

\* C30: the animation lock is always released: whenever isAnimating is true it
\* is false again later, given that rotations complete, requests settle and
\* timers fire.
C30_LockReleased == app.isAnimating ~> ~app.isAnimating

\* The moves of the stored solution up to the cursor
Played(a) == SubSeq(a.solution, 1, a.solutionIndex + 1)

\* A rotation is in progress
Rotating == \E o \in app.awaited : o.of # "solve"

\* C24: with no rotation in progress and a solution stored, the cube's stickers
\* are those of the state sent for that solution with solution[0..solutionIndex]
\* applied.
C24_PlaybackConsistent ==
    (~Rotating /\ Len(app.solution) > 0 /\ C29_CursorInRange)
        => app.cube = replay(app.sent, Played(app))

----------------------------------------------------------------------------
(* The 2048 page: GameManager, Grid and LocalStorageManager.  A cell is a    *)
(* pair <<x, y>>; a tile is kept at its cell, which stands for its x and y.  *)

MaxMoves == 3      \* move and restart events the page accepts

\* The sizes a GameManager is constructed with
Sizes == {2, 3}

NotGame == <<layout, turns, edits, vres, req, tablesInitialized, initLock, tables,
             buildCount, tool, app>>

\* An empty cell of Grid.cells
Null == [value |-> 0, mergedFrom |-> <<>>]

\* new Tile(position, value)
Tile(value) == [value |-> value, mergedFrom |-> <<>>]

\* The cells in the order of Grid.eachCell: x outer, y inner
CellOrder(size) == [k \in 1..(size * size) |-> <<(k - 1) \div size, (k - 1) % size>>]

Cells(size) == (0..(size - 1)) \X (0..(size - 1))

\* Grid.empty
empty(size) == [c \in Cells(size) |-> Null]

\* Grid.withinBounds
withinBounds(g, position) ==
    /\ position[1] >= 0 /\ position[1] < g.size
    /\ position[2] >= 0 /\ position[2] < g.size

\* Grid.cellContent
cellContent(g, cell) == IF withinBounds(g, cell) THEN g.cells[cell] ELSE Null

\* Grid.cellAvailable: !this.cellOccupied(cell)
cellAvailable(g, cell) == cellContent(g, cell) = Null

\* Grid.availableCells
availableCells(g) ==
    SelectSeq(CellOrder(g.size), LAMBDA c : g.cells[c] = Null)

\* Grid.cellsAvailable
cellsAvailable(g) == Len(availableCells(g)) # 0

\* Grid.serialize with Tile.serialize: the value at each cell, 0 for null
serializeGrid(g) == [size |-> g.size, cells |-> [c \in Cells(g.size) |-> g.cells[c].value]]

\* Grid.fromState
fromState(state) ==
    [c \in Cells(state.size) |->
        IF state.cells[c] # 0 THEN Tile(state.cells[c]) ELSE Null]

\* isGameTerminated that looks at over only
isGameTerminatedWhenOver(g) == g.over

\* GameManager.isGameTerminated
isGameTerminated(g) == g.over \/ (g.won /\ ~g.keepPlaying)

\* GameManager.serialize
serialize(g) ==
    [grid |-> serializeGrid(g), score |-> g.score, over |-> g.over, won |-> g.won,
     keepPlaying |-> g.keepPlaying]

\* actuate that stores the game state of a game that is over as well
actuateStoresAlways(g) ==
    [g EXCEPT !.bestScore = IF @ < g.score THEN g.score ELSE @,
              !.gameState = <<serialize(g)>>]

\* GameManager.actuate: the best score and the stored game state
actuate(g) ==
    [g EXCEPT !.bestScore = IF @ < g.score THEN g.score ELSE @,
              !.gameState = IF g.over THEN <<>> ELSE <<serialize(g)>>]

\* GameManager.getVector
getVector(direction) ==
    CASE direction = 0 -> <<0, -1>>
      [] direction = 1 -> <<1, 0>>
      [] direction = 2 -> <<0, 1>>
      [] direction = 3 -> <<-1, 0>>

\* GameManager.buildTraversals, as the list of cells move visits
Reverse(seq) == [k \in 1..Len(seq) |-> seq[Len(seq) + 1 - k]]

buildTraversals(size, vector) ==
    LET line == [k \in 1..size |-> k - 1]
        xs == IF vector[1] = 1 THEN Reverse(line) ELSE line
        ys == IF vector[2] = 1 THEN Reverse(line) ELSE line
    IN  [k \in 1..(size * size) |-> <<xs[((k - 1) \div size) + 1], ys[((k - 1) % size) + 1]>>]

\* GameManager.findFarthestPosition
RECURSIVE findFarthestPosition(_, _, _)
findFarthestPosition(g, cell, vector) ==
    LET previous == cell
        forward == <<previous[1] + vector[1], previous[2] + vector[2]>>
    IN  IF withinBounds(g, forward) /\ cellAvailable(g, forward)
        THEN findFarthestPosition(g, forward, vector)
        ELSE [farthest |-> previous, next |-> forward]

\* Grid.insertTile: the tile is kept at its cell
insertTile(cells, cell, tile) == [c \in DOMAIN cells |-> IF c = cell THEN tile ELSE cells[c]]

\* Grid.removeTile
removeTile(cells, cell) == insertTile(cells, cell, Null)

\* GameManager.moveTile: the tile leaves its cell and is put at the given one
moveTile(cells, from, tile, cell) == insertTile(removeTile(cells, from), cell, tile)

\* GameManager.prepareTiles
prepareTiles(g) ==
    [g EXCEPT !.cells = [c \in Cells(g.size) |->
                            IF g.cells[c] # Null THEN [g.cells[c] EXCEPT !.mergedFrom = <<>>]
                            ELSE Null]]

\* The body of move's loop for a cell that ignores next.mergedFrom
MoveCellMergesAgain(g, cell, vector) ==
    LET tile == cellContent(g, cell)
        positions == findFarthestPosition(g, cell, vector)
        next == cellContent(g, positions.next)
    IN  IF tile = Null THEN g
        ELSE IF next # Null /\ next.value = tile.value
        THEN LET merged == [value |-> tile.value * 2, mergedFrom |-> <<tile, next>>]
             IN  [g EXCEPT !.cells = removeTile(insertTile(@, positions.next, merged), cell),
                           !.score = @ + merged.value,
                           !.won = @ \/ merged.value = 2048,
                           !.moved = TRUE]
        ELSE [g EXCEPT !.cells = moveTile(@, cell, tile, positions.farthest),
                       !.moved = @ \/ positions.farthest # cell]

\* The body of move's loop that adds the moving tile's value to the score
MoveCellScoresTile(g, cell, vector) ==
    LET tile == cellContent(g, cell)
        positions == findFarthestPosition(g, cell, vector)
        next == cellContent(g, positions.next)
    IN  IF tile = Null THEN g
        ELSE IF next # Null /\ next.value = tile.value /\ next.mergedFrom = <<>>
        THEN LET merged == [value |-> tile.value * 2, mergedFrom |-> <<tile, next>>]
             IN  [g EXCEPT !.cells = removeTile(insertTile(@, positions.next, merged), cell),
                           !.score = @ + tile.value,
                           !.won = @ \/ merged.value = 2048,
                           !.moved = TRUE]
        ELSE [g EXCEPT !.cells = moveTile(@, cell, tile, positions.farthest),
                       !.moved = @ \/ positions.farthest # cell]

\* The body of move's loop for one cell: merge into the next tile, or slide
\* (moveTile) to the farthest free cell; moved when the tile left its cell
MoveCell(g, cell, vector) ==
    LET tile == cellContent(g, cell)
        positions == findFarthestPosition(g, cell, vector)
        next == cellContent(g, positions.next)
    IN  IF tile = Null THEN g
        ELSE IF next # Null /\ next.value = tile.value /\ next.mergedFrom = <<>>
        THEN LET merged == [value |-> tile.value * 2, mergedFrom |-> <<tile, next>>]
             IN  [g EXCEPT !.cells = removeTile(insertTile(@, positions.next, merged), cell),
                           !.score = @ + merged.value,
                           !.won = @ \/ merged.value = 2048,
                           !.moved = TRUE]
        ELSE [g EXCEPT !.cells = moveTile(@, cell, tile, positions.farthest),
                       !.moved = @ \/ positions.farthest # cell]

\* move's two forEach loops over the traversals
RECURSIVE Traverse(_, _, _)
Traverse(g, cells, vector) ==
    IF cells = <<>> THEN g
    ELSE With(MoveCell(g, Head(cells), vector),
              LAMBDA h : Traverse(h, Tail(cells), vector))

\* tileMatchesAvailable that looks along x only
tileMatchesAvailableInRows(g) ==
    \E c \in Cells(g.size), direction \in {1, 3} :
        LET vector == getVector(direction)
            other == cellContent(g, <<c[1] + vector[1], c[2] + vector[2]>>)
        IN  g.cells[c] # Null /\ other # Null /\ other.value = g.cells[c].value

\* GameManager.tileMatchesAvailable
tileMatchesAvailable(g) ==
    \E c \in Cells(g.size), direction \in 0..3 :
        LET vector == getVector(direction)
            other == cellContent(g, <<c[1] + vector[1], c[2] + vector[2]>>)
        IN  g.cells[c] # Null /\ other # Null /\ other.value = g.cells[c].value

\* GameManager.movesAvailable
movesAvailable(g) == cellsAvailable(g) \/ tileMatchesAvailable(g)

\* Math.floor(Math.random() * n) for the draws that are taken: the lowest and the highest
SampleIndex(n) == {0, n - 1}

\* Math.random() < 0.9 ? 2 : 4
SampleValue == {2, 4}

\* GameManager.addRandomTile: the grids it can leave
addRandomTile(g) ==
    IF cellsAvailable(g)
    THEN LET cells == availableCells(g)
         IN  {[g EXCEPT !.cells = insertTile(@, cells[i + 1], Tile(value))] :
                 i \in SampleIndex(Len(cells)), value \in SampleValue}
    ELSE {g}

\* GameManager.setup: from the stored state, or a new grid with startTiles tiles
startTiles == 2

setup(g, size) ==
    IF g.gameState # <<>>
    THEN LET previousState == g.gameState[1]
         IN  {actuate([g EXCEPT !.loaded = TRUE,
                                !.size = previousState.grid.size,
                                !.cells = fromState(previousState.grid),
                                !.score = previousState.score,
                                !.over = previousState.over,
                                !.won = previousState.won,
                                !.keepPlaying = previousState.keepPlaying])}
    ELSE LET fresh == [g EXCEPT !.loaded = TRUE, !.size = size, !.cells = empty(size),
                                !.score = 0, !.over = FALSE, !.won = FALSE,
                                !.keepPlaying = FALSE]
         IN  {actuate(h2) : h2 \in UNION {addRandomTile(h1) : h1 \in addRandomTile(fresh)}}

\* new GameManager(size, ...): the page is loaded, or loaded again
Construct(size) ==
    /\ game.loaded => size = game.size
    /\ startTiles = 2
    /\ \E g \in setup([game EXCEPT !.last = <<>>], size) : game' = g
    /\ UNCHANGED NotGame

\* What an earlier session of a 4 x 4 game left in localStorage: two 1024 tiles
\* side by side, late in the game
StoredGame ==
    [grid |-> [size |-> 4,
               cells |-> [c \in Cells(4) |->
                             CASE c = <<0, 0>> -> 1024
                               [] c = <<0, 1>> -> 1024
                               [] c = <<3, 3>> -> 2
                               [] OTHER -> 0]],
     score |-> 18432, over |-> FALSE, won |-> FALSE, keepPlaying |-> FALSE]

\* new GameManager(4, ...) when the page is opened on that localStorage
ConstructStored ==
    /\ ~game.loaded
    /\ \E g \in setup([game EXCEPT !.gameState = <<StoredGame>>,
                                    !.bestScore = StoredGame.score], 4) : game' = g
    /\ UNCHANGED NotGame

\* GameManager.restart
Restart ==
    /\ game.loaded
    /\ game.moves < MaxMoves
    /\ \E g \in setup([game EXCEPT !.gameState = <<>>, !.last = <<>>, !.moves = @ + 1],
                       game.size) : game' = g
    /\ UNCHANGED NotGame

\* GameManager.keepPlayingGame
KeepPlayingGame ==
    /\ game.loaded
    /\ game' = [game EXCEPT !.keepPlaying = TRUE]
    /\ UNCHANGED NotGame

\* GameManager.move; last keeps the direction and the grid as the loops left it
move(direction) ==
    /\ game.loaded
    /\ game.moves < MaxMoves
    /\ IF isGameTerminated(game)
       THEN game' = [game EXCEPT !.moves = @ + 1,
                                 !.last = [direction |-> direction, slid |-> game.cells]]
       ELSE \E t \in {Traverse([cells |-> prepareTiles(game).cells, size |-> game.size,
                                score |-> game.score, won |-> game.won, moved |-> FALSE],
                               buildTraversals(game.size, getVector(direction)),
                               getVector(direction))} :
               \E slid \in {[game EXCEPT !.cells = t.cells, !.score = t.score,
                                         !.won = t.won, !.moves = @ + 1,
                                         !.last = [direction |-> direction,
                                                   slid |-> t.cells]]} :
                  IF t.moved
                  THEN \E g \in addRandomTile(slid) :
                          game' = actuate([g EXCEPT !.over = @ \/ ~movesAvailable(g)])
                  ELSE game' = slid
    /\ UNCHANGED NotGame

NextGame ==
    \/ \E size \in Sizes : Construct(size)
    \/ ConstructStored
    \/ Restart
    \/ KeepPlayingGame
    \/ \E direction \in 0..3 : move(direction)

SpecGame == Init /\ [][NextGame]_vars

\* The tiles on the grid
Tiles(cells) == {cells[c] : c \in {d \in DOMAIN cells : cells[d] # Null}}

\* C26: within one move no tile takes part in more than one merge: a tile that
\* a merge of the move created is not merged again in that move, so the two
\* tiles a merged tile was made from are never themselves made by a merge
C26_NoTileMergesTwice ==
    game.loaded =>
        \A tile \in Tiles(game.cells) :
            \A k \in 1..Len(tile.mergedFrom) : tile.mergedFrom[k].mergedFrom = <<>>

\* A move has left a tile made by a merge with a tile of its own value right
\* behind it in the line it was moved along
C26_Witness ==
    /\ game.loaded /\ game.last # <<>>
    /\ \E c \in Cells(game.size) :
          LET vector == getVector(game.last.direction)
              behind == <<c[1] - vector[1], c[2] - vector[2]>>
          IN  /\ game.last.slid[c].mergedFrom # <<>>
              /\ game.cells[c] = game.last.slid[c]
              /\ behind \in Cells(game.size)
              /\ game.last.slid[behind].value = game.last.slid[c].value

\* The values on the grid, 0 for an empty cell
Values(cells) == [c \in DOMAIN cells |-> cells[c].value]

\* Two orthogonally adjacent tiles of equal value
AdjacentEqual(cells) ==
    \E c \in DOMAIN cells, d \in DOMAIN cells :
        /\ (c[1] = d[1] /\ (c[2] - d[2]) \in {1, -1}) \/ (c[2] = d[2] /\ (c[1] - d[1]) \in {1, -1})
        /\ cells[c] # Null /\ cells[d] # Null
        /\ cells[c].value = cells[d].value

\* A step that is a move event
IsMove == game'.moves = game.moves + 1 /\ game'.last # <<>>

\* The move displaced a tile: the loops left other values on the grid
Displaces == Values(game'.last.slid) # Values(game.cells)

\* C27: a move that displaces a tile finds an empty cell, puts exactly one new
\* tile of value 2 or 4 into an empty cell, and sets over exactly when the grid
\* then has no empty cell and no two adjacent tiles of equal value; a move that
\* displaces no tile leaves the values on the grid, the score, the flags and
\* the stored state as they were
C27_MoveOutcome ==
    [][IsMove =>
          IF Displaces
          THEN /\ \E c \in Cells(game.size) :
                     /\ game'.last.slid[c] = Null
                     /\ game'.cells[c] \in {Tile(2), Tile(4)}
                     /\ \A d \in Cells(game.size) \ {c} : game'.cells[d] = game'.last.slid[d]
               /\ game'.over <=> /\ \A c \in Cells(game.size) : game'.cells[c] # Null
                                 /\ ~AdjacentEqual(game'.cells)
          ELSE /\ Values(game'.cells) = Values(game.cells)
               /\ game'.score = game.score
               /\ game'.over = game.over /\ game'.won = game.won
               /\ game'.keepPlaying = game.keepPlaying
               /\ game'.gameState = game.gameState
               /\ game'.bestScore = game.bestScore]_vars

\* A move has displaced a tile and the new tile filled the grid with no two
\* adjacent tiles equal: the game is over
C27_Witness ==
    /\ game.loaded /\ game.last # <<>>
    /\ Values(game.last.slid) # Values(game.cells)
    /\ \A c \in Cells(game.size) : game.cells[c] # Null
    /\ ~AdjacentEqual(game.cells)
    /\ game.over

\* The sum of the values of the tiles on the grid
TileSum(cells, size) == SumSeq([k \in 1..(size * size) |-> cells[CellOrder(size)[k]].value])

\* The sum of the values of the tiles a merge has made
MergedSum(cells, size) ==
    SumSeq([k \in 1..(size * size) |->
               IF cells[CellOrder(size)[k]].mergedFrom # <<>>
               THEN cells[CellOrder(size)[k]].value ELSE 0])

\* C28: a move adds to the score exactly the sum of the values of the tiles its
\* merges made (none when the game is terminated), and sliding and merging
\* leave the sum of the tile values on the grid as it was before the move
C28_ScoreAndSum ==
    [][IsMove =>
          /\ game'.score - game.score =
                IF isGameTerminated(game) THEN 0
                ELSE MergedSum(game'.last.slid, game.size)
          /\ TileSum(game'.last.slid, game.size) = TileSum(game.cells, game.size)]_vars

\* A move has made two merges: two merged tiles are on the grid and the score
\* is at least their sum
C28_Witness ==
    /\ game.loaded /\ game.last # <<>>
    /\ Cardinality({c \in Cells(game.size) : game.last.slid[c].mergedFrom # <<>>}) >= 2
    /\ game.score >= MergedSum(game.last.slid, game.size)
    /\ game.score > 0

----------------------------------------------------------------------------
(* The counts of a validation report *)

\* The positions a Duplicate entry lists after its " at ": the names joined by
\* ", " follow a head of the given length
Occurrences(entry, head) == (Len(entry) - head + 1) \div 2

\* Summed over the Duplicate entries of a report, occurrences - 1
Surplus(list, head) == SumSeq([k \in 1..Len(list) |-> Occurrences(list[k], head) - 1])

\* C31: in every validation report the missing edges are as many as the
\* invalid-edge entries plus the surplus occurrences of the duplicated edges,
\* and likewise for corners; so a report that has issues names a missing edge
\* or corner, and a layout that passes has no entry in any list
C31_ReportCounts ==
    /\ vres.kind = "result" =>
          /\ Len(vres.result.MissingEdges) =
                Len(vres.result.InvalidEdges) + Surplus(vres.result.DuplicateEdges, 4)
          /\ Len(vres.result.MissingCorners) =
                Len(vres.result.InvalidCorners) + Surplus(vres.result.DuplicateCorners, 6)
          /\ HasIssues(vres.result) <=>
                (Len(vres.result.MissingEdges) > 0 \/ Len(vres.result.MissingCorners) > 0)
    /\ vres.kind = "null" =>
          /\ ~HasIssues(Report(layout))
          /\ Len(MissingEdges(layout)) = 0 /\ Len(MissingCorners(layout)) = 0

\* A report with a duplicated edge and an invalid corner
C31_Witness ==
    /\ vres.kind = "result"
    /\ Len(vres.result.DuplicateEdges) > 0
    /\ Len(vres.result.InvalidCorners) > 0
    /\ Len(vres.result.MissingEdges) > 0 /\ Len(vres.result.MissingCorners) > 0

\* C32: a move requested while the game is terminated (over, or won without
\* keepPlaying) changes nothing, whatever the direction: the grid, the score,
\* over, won, keepPlaying and the stored game state stay as they were
C32_TerminatedMoveChangesNothing ==
    [][(IsMove /\ (game.over \/ (game.won /\ ~game.keepPlaying))) =>
          /\ game'.cells = game.cells
          /\ game'.score = game.score
          /\ game'.over = game.over /\ game'.won = game.won
          /\ game'.keepPlaying = game.keepPlaying
          /\ game'.gameState = game.gameState]_vars

\* A move was requested in a game that is won and not continued, with tiles
\* that could slide; the grid is as the move found it
C32_Witness ==
    /\ game.loaded /\ game.last # <<>>
    /\ game.won /\ ~game.keepPlaying /\ ~game.over
    /\ game.last.slid = game.cells
    /\ \E c \in Cells(game.size) : game.cells[c].value = 2048

\* A step that ends with actuate: setup (constructor, restart) or a move that
\* displaced a tile; keepPlayingGame and the other moves do not call it
Actuates ==
    /\ game'.loaded /\ game' # game
    /\ game' # [game EXCEPT !.keepPlaying = TRUE]
    /\ ~(IsMove /\ ~Displaces)

\* C33: the stored best score never decreases, and after every actuate it is at
\* least the score, and the stored game state is absent when the game is over
\* and otherwise is the serialisation of the grid, score, over, won and
\* keepPlaying as they are
C33_ActuateStores ==
    [][/\ game'.bestScore >= game.bestScore
       /\ Actuates =>
             /\ game'.bestScore >= game'.score
             /\ game'.gameState =
                   IF game'.over THEN <<>>
                   ELSE <<[grid |-> [size |-> game'.size, cells |-> Values(game'.cells)],
                           score |-> game'.score, over |-> game'.over, won |-> game'.won,
                           keepPlaying |-> game'.keepPlaying]>>]_vars

\* A move has raised the score to a new best score and its game state is stored
C33_Witness ==
    /\ game.loaded /\ game.last # <<>>
    /\ Values(game.last.slid) # Values(game.cells)
    /\ game.score > 0 /\ game.bestScore = game.score
    /\ ~game.over
    /\ game.gameState # <<>>
    /\ game.gameState[1].score = game.score
    /\ game.gameState[1].grid.cells = Values(game.cells)

----------------------------------------------------------------------------
(* Quarter turns and half turns of the tracker *)

\* Four clockwise quarter turns of each face give the state back, and the
\* half turn is two clockwise quarter turns
TurnsCompose(state) ==
    \A f \in Faces :
        /\ replay(state, <<Move(f, ""), Move(f, ""), Move(f, ""), Move(f, "")>>) = state
        /\ updateState(state, Move(f, "2")) = replay(state, <<Move(f, ""), Move(f, "")>>)

\* The same on the state whose 54 stickers are all different, where two
\* quarter turns do not give the state back
LabelledTurnsCompose ==
    /\ TurnsCompose(Labelled)
    /\ \A f \in Faces : updateState(Labelled, Move(f, "2")) # Labelled

\* C34: for every face and every sticker state, four successive clockwise
\* quarter turns of the face restore the 54 stickers, and the half turn X2 does
\* what two clockwise quarter turns of that face do
C34_FourQuarterTurns ==
    /\ LabelledTurnsCompose
    /\ Has54(layout) => TurnsCompose(layout)

\* A state two turns away from the solved one that a quarter turn of the right
\* face changes and a half turn of it changes differently
C34_Witness ==
    /\ Has54(layout) /\ turns = MaxTurns
    /\ updateState(layout, <<"R">>) # layout
    /\ updateState(layout, <<"R", "2">>) # updateState(layout, <<"R">>)
    /\ updateState(layout, <<"R", "2">>) # layout

----------------------------------------------------------------------------
(* Termination of randomCube *)

\* C35: with a fair random source, every call of randomCube leaves its
\* re-sampling loop and returns a cube
C35_RandomCubeTerminates ==
    (tool.op = "randomCube") ~> (tool.op = "randomCube" /\ tool.pc = "returned")

\* A cube was returned after the loop drew permutations of different parities
\* at least twice
C35_Witness ==
    /\ tool.op = "randomCube" /\ tool.pc = "returned"
    /\ tool.draws = MaxDraws

====
